---------------------------- MODULE Spec2Model ----------------------------
(***************************************************************************)
(* Model of the typed message/response protocol runtime of                 *)
(* src/tools/efro/message.py: MessageProtocol (type registry and wire      *)
(* codec), MessageSender and MessageReceiver.                              *)
(*                                                                         *)
(* Python values are modelled as follows.                                  *)
(*   - a type is the string of its qualified name;                         *)
(*   - a str is a sequence of string tokens (so that a traceback can       *)
(*     contain the text of the exception it reports);                      *)
(*   - a dataclass field value is a record [k, i, s]: k is "int", "str"    *)
(*     or "enum", i the integer (or the enum member's value), s the str;   *)
(*   - an instance is [tp |-> type, f |-> field name -> field value];      *)
(*   - a dict is a function from its keys;                                 *)
(*   - the outcome of a call is [raised, exc, text, val]: either a         *)
(*     returned value val, or a raised exception of class exc whose        *)
(*     str() is text.                                                      *)
(* Assertions are modelled as enabled (the default, __debug__ true), and   *)
(* handlers and transports raise subclasses of Exception only.             *)
(***************************************************************************)
EXTENDS Integers, Sequences, FiniteSets, TLC

\* Largest type id that incoming bytes carry.
MaxId == 3

\* Largest value of an integer payload field.
MaxInt == 1

\* Number of distinct error message texts that handlers raise.
NumTexts == 2

--------------------------------------------------------------------------
(* Python values *)

NoText == <<>>

IntVal(n) == [k |-> "int", i |-> n, s |-> NoText]

StrVal(t) == [k |-> "str", i |-> 0, s |-> t]

EnumVal(n) == [k |-> "enum", i |-> n, s |-> NoText]

EmptyDict == <<>>

\* None, and an object that is neither a Message nor a Response.
NoneVal == [tp |-> "NoneType", f |-> EmptyDict]

PlainObject == [tp |-> "object", f |-> EmptyDict]

Return(v) == [raised |-> FALSE, exc |-> "", text |-> NoText, val |-> v]

Raise(e, t) == [raised |-> TRUE, exc |-> e, text |-> t, val |-> NoneVal]

\* dict.get(key), with None for a missing key.
DictGet(d, key, none) == IF key \in DOMAIN d THEN d[key] ELSE none

\* The dict d after `d[key] = v`.
DictSet(d, key, v) == [x \in DOMAIN d \cup {key} |-> IF x = key THEN v ELSE d[x]]

\* The dict d after `d.pop(key)`.
DictDel(d, key) == [x \in DOMAIN d \ {key} |-> d[x]]

--------------------------------------------------------------------------
(* The types: the runtime's own, and an application schema *)

\* class ErrorType(Enum)
ErrorType == [OTHER |-> 0, CLEAN |-> 1]

\* Subclasses of Message. Relay derives from both Message and Response;
\* Stray is a message type that no protocol below registers; legacy.Ping
\* is a second class whose __name__ is Ping and requests.Pong a message
\* class whose __name__ is Pong; Mute declares no response types and Echo
\* declares the same response type twice.
MessageSubclasses == {"Ping", "Shutdown", "Relay", "Stray", "legacy.Ping", "requests.Pong", "Mute", "Echo"}

\* Subclasses of Response. legacy.Pong is a second class whose __name__ is
\* Pong.
ResponseSubclasses == {"Pong", "Relay", "EmptyResponse", "ErrorResponse", "legacy.Pong"}

AllTypes == MessageSubclasses \cup ResponseSubclasses \cup {"NoneType", "object"}

\* cls.__name__
TypeName(tp) ==
    CASE tp = "legacy.Ping" -> "Ping"
      [] tp \in {"legacy.Pong", "requests.Pong"} -> "Pong"
      [] OTHER -> tp

\* The dataclass fields of a type: attribute name, storage key (IOAttrs
\* renames it), value kind, and the default value if there is one.
Field(name, key, kind) == [name |-> name, key |-> key, kind |-> kind, hasdefault |-> FALSE, default |-> IntVal(0)]

FieldWithDefault(name, key, kind, v) == [name |-> name, key |-> key, kind |-> kind, hasdefault |-> TRUE, default |-> v]

Fields(tp) ==
    CASE tp = "ErrorResponse" -> {Field("error_message", "m", "str"), Field("error_type", "t", "enum")}
      [] tp = "EmptyResponse" -> {}
      [] tp \in {"Ping", "legacy.Ping"} -> {FieldWithDefault("message", "message", "int", IntVal(0))}
      [] tp = "Relay" -> {Field("hops", "k", "int")}
      [] tp \in {"Pong", "legacy.Pong"} -> {Field("reply", "reply", "str")}
      [] OTHER -> {}

\* is_ioprepped_dataclass(cls): every type of the schema is prepped.
is_ioprepped_dataclass(tp) == tp \in MessageSubclasses \cup ResponseSubclasses

\* Message.get_response_types(): the default is [EmptyResponse].
get_response_types(tp) ==
    CASE tp \in {"Ping", "legacy.Ping"} -> <<"Pong">>
      [] tp = "Relay" -> <<"Pong", "Relay">>
      [] tp = "Mute" -> <<>>
      [] tp = "Echo" -> <<"Pong", "Pong">>
      [] OTHER -> <<"EmptyResponse">>

ListToSet(l) == {l[x] : x \in DOMAIN l}

--------------------------------------------------------------------------
(* MessageProtocol.__init__ *)

\* type_key=None
NoneKey == "<None>"

issubclass(tp, base) ==
    IF base = "Message" THEN tp \in MessageSubclasses ELSE tp \in ResponseSubclasses

\* RegisterLoop as it would be without the check that ids are not
\* negative.
RECURSIVE RegisterLoopAnyId(_, _, _, _, _)
RegisterLoopAnyId(items, n, base, by_id, by_type) ==
    IF n > Len(items) THEN [ok |-> TRUE, by_id |-> by_id, by_type |-> by_type]
    ELSE IF /\ is_ioprepped_dataclass(items[n][2]) /\ issubclass(items[n][2], base)
            /\ items[n][1] \notin DOMAIN by_id
         THEN RegisterLoopAnyId(items, n + 1, base, DictSet(by_id, items[n][1], items[n][2]),
                                DictSet(by_type, items[n][2], items[n][1]))
         ELSE [ok |-> FALSE, by_id |-> by_id, by_type |-> by_type]

\* The two registration loops. A dict argument is the sequence of its
\* <<id, type>> items in iteration order.
RECURSIVE RegisterLoop(_, _, _, _, _)
RegisterLoop(items, n, base, by_id, by_type) ==
    IF n > Len(items) THEN [ok |-> TRUE, by_id |-> by_id, by_type |-> by_type]
    ELSE LET id == items[n][1]
             tp == items[n][2]
         IN  IF /\ id >= 0
                /\ is_ioprepped_dataclass(tp) /\ issubclass(tp, base)
                /\ id \notin DOMAIN by_id
             THEN RegisterLoop(items, n + 1, base, DictSet(by_id, id, tp), DictSet(by_type, tp, id))
             ELSE [ok |-> FALSE, by_id |-> by_id, by_type |-> by_type]

\* _reg_if_not(reg_tp, reg_id) on the response maps.
reg_if_not(reg, reg_tp, reg_id) ==
    IF ~reg.ok THEN reg
    ELSE IF reg_tp \in DOMAIN reg.by_type THEN reg
    ELSE IF reg_id \in DOMAIN reg.by_id THEN [reg EXCEPT !.ok = FALSE]
    ELSE [ok |-> TRUE, by_id |-> DictSet(reg.by_id, reg_id, reg_tp), by_type |-> DictSet(reg.by_type, reg_tp, reg_id)]

\* ResponseTypesValid as it would be with the membership check alone.
ResponseTypesValidMembershipOnly(message_types, response_ids_by_type) ==
    \A n \in DOMAIN message_types :
        \A cls \in ListToSet(get_response_types(message_types[n][2])) :
            /\ is_ioprepped_dataclass(cls)
            /\ issubclass(cls, "Response")
            /\ cls \in DOMAIN response_ids_by_type

\* The validation of the declared response types of every message type.
ResponseTypesValid(message_types, response_ids_by_type) ==
    /\ \A n \in DOMAIN message_types :
          LET m_rtypes == get_response_types(message_types[n][2])
          IN  /\ Len(m_rtypes) > 0
              /\ Cardinality(ListToSet(m_rtypes)) = Len(m_rtypes)
    /\ \A n \in DOMAIN message_types :
          \A cls \in ListToSet(get_response_types(message_types[n][2])) :
              /\ is_ioprepped_dataclass(cls)
              /\ issubclass(cls, "Response")
              /\ cls \in DOMAIN response_ids_by_type

\* The check for unique base names.
NamesUnique(message_types, message_ids_by_type) ==
    Cardinality({TypeName(tp) : tp \in DOMAIN message_ids_by_type}) = Len(message_types)

\* The end of the constructor, given the maps the registration built:
\* [ok |-> FALSE] when the constructor raises, else the protocol in self.
FinishProtocolInit(message_types, msgs, rsps, type_key, preserve_clean_errors, log_remote_exceptions, trusted_sender) ==
    [ok |-> /\ msgs.ok
            /\ rsps.ok
            /\ ResponseTypesValid(message_types, rsps.by_type)
            /\ NamesUnique(message_types, msgs.by_type),
     self |-> [message_types_by_id |-> msgs.by_id,
               message_ids_by_type |-> msgs.by_type,
               response_types_by_id |-> rsps.by_id,
               response_ids_by_type |-> rsps.by_type,
               type_key |-> type_key,
               preserve_clean_errors |-> preserve_clean_errors,
               log_remote_exceptions |-> log_remote_exceptions,
               trusted_sender |-> trusted_sender]]

\* MessageProtocolInit as it would be with the two reserved ids exchanged.
MessageProtocolInitSwappedIds(message_types, response_types, type_key, preserve_clean_errors, log_remote_exceptions, trusted_sender) ==
    FinishProtocolInit(message_types,
                       RegisterLoop(message_types, 1, "Message", EmptyDict, EmptyDict),
                       reg_if_not(reg_if_not(RegisterLoop(response_types, 1, "Response", EmptyDict, EmptyDict),
                                             "ErrorResponse", -2),
                                  "EmptyResponse", -1),
                       type_key, preserve_clean_errors, log_remote_exceptions, trusted_sender)

\* MessageProtocol(message_types, response_types, type_key, ...)
MessageProtocolInit(message_types, response_types, type_key, preserve_clean_errors, log_remote_exceptions, trusted_sender) ==
    FinishProtocolInit(message_types,
                       RegisterLoop(message_types, 1, "Message", EmptyDict, EmptyDict),
                       reg_if_not(reg_if_not(RegisterLoop(response_types, 1, "Response", EmptyDict, EmptyDict),
                                             "ErrorResponse", -1),
                                  "EmptyResponse", -2),
                       type_key, preserve_clean_errors, log_remote_exceptions, trusted_sender)

--------------------------------------------------------------------------
(* JSON and the dataclass <-> dict conversion *)

\* A JSON value inside a payload dict: k is "int", "str", "bool", "null" or
\* "dict" (a nested object, whose content no field of the schema reads).
JInt(n) == [k |-> "int", i |-> n, s |-> NoText]

JStr(t) == [k |-> "str", i |-> 0, s |-> t]

JBool(n) == [k |-> "bool", i |-> n, s |-> NoText]

JNull == [k |-> "null", i |-> 0, s |-> NoText]

JNested == [k |-> "dict", i |-> 0, s |-> NoText]

\* A JSON value at the top level of the document: d holds the members of
\* an object.
Top(j) == [k |-> j.k, i |-> j.i, s |-> j.s, d |-> EmptyDict]

JDict(d) == [k |-> "dict", i |-> 0, s |-> NoText, d |-> d]

Lower(j) == [k |-> j.k, i |-> j.i, s |-> j.s]

\* json.dumps(out, separators=(',', ':')).encode(): the bytes of a document.
JsonDumps(out) == [form |-> "dict", obj |-> out]

\* Bytes that are no JSON text, and the JSON text of a list.
GarbageBytes == [form |-> "garbage", obj |-> EmptyDict]

ListBytes == [form |-> "list", obj |-> EmptyDict]

\* json.loads(data.decode())
JsonLoads(data) ==
    IF data.form = "garbage" THEN Raise("ValueError", <<"Expecting value">>)
    ELSE Return(data)

\* The stored form of a field value: an enum member is stored as its value.
ToJson(v) == IF v.k = "enum" THEN JInt(v.i) ELSE [k |-> v.k, i |-> v.i, s |-> v.s]

\* Whether a stored value is valid for a field of the given kind.
KindOk(kind, j) ==
    CASE kind = "int" -> j.k = "int"
      [] kind = "str" -> j.k = "str"
      [] kind = "enum" -> j.k = "int" /\ j.i \in {ErrorType.OTHER, ErrorType.CLEAN}
      [] OTHER -> FALSE

FromJson(kind, j) == IF kind = "enum" THEN EnumVal(j.i) ELSE [k |-> j.k, i |-> j.i, s |-> j.s]

FieldByKey(tp, key) == CHOOSE fld \in Fields(tp) : fld.key = key

\* dataclass_to_dict(obj): storage key -> stored value.
dataclass_to_dict(obj) ==
    [key \in {fld.key : fld \in Fields(obj.tp)} |-> ToJson(obj.f[FieldByKey(obj.tp, key).name])]

\* dataclass_from_dict(cls, values): unknown keys are ignored, a missing
\* field takes its default, a missing field without default or a value of
\* the wrong kind fails.
dataclass_from_dict(cls, values) ==
    IF \A fld \in Fields(cls) :
          IF fld.key \in DOMAIN values THEN KindOk(fld.kind, values[fld.key]) ELSE fld.hasdefault
    THEN Return([tp |-> cls,
                 f |-> [name \in {fld.name : fld \in Fields(cls)} |->
                          LET fld == CHOOSE x \in Fields(cls) : x.name = name
                          IN  IF fld.key \in DOMAIN values
                              THEN FromJson(fld.kind, values[fld.key])
                              ELSE fld.default]])
    ELSE Raise("TypeError", <<"invalid input for", cls>>)

--------------------------------------------------------------------------
(* MessageProtocol: the wire codec *)

\* EncodeDict as it would be without the check for a field stored under
\* type_key.
EncodeDictOverwritingKey(self, message, m_id, msgdict) ==
    IF self.type_key # NoneKey
    THEN Return(JsonDumps(DictSet([x \in DOMAIN msgdict |-> Top(msgdict[x])],
                                  self.type_key, Top(JInt(m_id)))))
    ELSE Return(JsonDumps(DictSet(DictSet(EmptyDict, "m", JDict(msgdict)), "t", Top(JInt(m_id)))))

\* EncodeDict as it would be if the envelope layout were written whatever
\* type_key is.
EncodeDictEnvelopeOnly(self, message, m_id, msgdict) ==
    Return(JsonDumps(DictSet(DictSet(EmptyDict, "m", JDict(msgdict)), "t", Top(JInt(m_id)))))

\* The end of _encode: the id is embedded in the message's dict and the
\* result is dumped.
EncodeDict(self, message, m_id, msgdict) ==
    IF self.type_key # NoneKey
    THEN IF self.type_key \in DOMAIN msgdict
         THEN Raise("RuntimeError", <<"Type-key", self.type_key, "found in msg of type", message.tp>>)
         ELSE Return(JsonDumps(DictSet([x \in DOMAIN msgdict |-> Top(msgdict[x])],
                                       self.type_key, Top(JInt(m_id)))))
    ELSE Return(JsonDumps(DictSet(DictSet(EmptyDict, "m", JDict(msgdict)), "t", Top(JInt(m_id)))))

\* Encode as it would be if a type without an id were given the id 0.
EncodeDefaultId(self, message, ids_by_type, opname) ==
    EncodeDict(self, message, DictGet(ids_by_type, message.tp, 0), dataclass_to_dict(message))

\* _encode(message, ids_by_type, opname)
Encode(self, message, ids_by_type, opname) ==
    IF message.tp \notin DOMAIN ids_by_type
    THEN Raise("TypeError", <<opname, "type is not registered in protocol:", message.tp>>)
    ELSE EncodeDict(self, message, ids_by_type[message.tp], dataclass_to_dict(message))

encode_message(self, message) == Encode(self, message, self.message_ids_by_type, "message")

encode_response(self, response) == Encode(self, response, self.response_ids_by_type, "response")

\* isinstance(x, int): bool is a subclass of int.
IsInt(j) == j.k \in {"int", "bool"}

\* DecodeSpecialCases as it would be if preserve_clean_errors were not
\* consulted.
DecodeSpecialCasesCleanAlways(self, out, opname) ==
    IF out.raised THEN out
    ELSE IF out.val.tp = "EmptyResponse" THEN Return(NoneVal)
    ELSE IF out.val.tp = "ErrorResponse"
    THEN IF opname # "response" THEN Raise("AssertionError", NoText)
         ELSE IF out.val.f["error_type"] = EnumVal(ErrorType.CLEAN)
              THEN Raise("CleanError", out.val.f["error_message"].s)
              ELSE Raise("RemoteError", out.val.f["error_message"].s)
    ELSE out

\* DecodeSpecialCases as it would be if an EmptyResponse were returned as
\* it is.
DecodeSpecialCasesKeepingEmpty(self, out, opname) ==
    IF out.raised THEN out
    ELSE IF out.val.tp = "ErrorResponse"
    THEN IF opname # "response" THEN Raise("AssertionError", NoText)
         ELSE IF self.preserve_clean_errors /\ out.val.f["error_type"] = EnumVal(ErrorType.CLEAN)
              THEN Raise("CleanError", out.val.f["error_message"].s)
              ELSE Raise("RemoteError", out.val.f["error_message"].s)
    ELSE out

\* The special cases at the end of _decode, for the outcome of
\* dataclass_from_dict.
DecodeSpecialCases(self, out, opname) ==
    IF out.raised THEN out
    ELSE IF out.val.tp = "EmptyResponse" THEN Return(NoneVal)
    ELSE IF out.val.tp = "ErrorResponse"
    THEN IF opname # "response" THEN Raise("AssertionError", NoText)
         ELSE IF self.preserve_clean_errors /\ out.val.f["error_type"] = EnumVal(ErrorType.CLEAN)
              THEN Raise("CleanError", out.val.f["error_message"].s)
              ELSE Raise("RemoteError", out.val.f["error_message"].s)
    ELSE out

\* DecodeType as it would be if the instance were made without the
\* payload.
DecodeTypeIgnoringPayload(self, m_id, msgdict, types_by_id, opname) ==
    IF m_id \notin DOMAIN types_by_id
    THEN Raise("TypeError", <<"Got unregistered", opname, "type id of", ToString(m_id)>>)
    ELSE DecodeSpecialCases(self, dataclass_from_dict(types_by_id[m_id], EmptyDict), opname)

\* _decode from the point where the id and the payload dict are known.
DecodeType(self, m_id, msgdict, types_by_id, opname) ==
    IF m_id \notin DOMAIN types_by_id
    THEN Raise("TypeError", <<"Got unregistered", opname, "type id of", ToString(m_id)>>)
    ELSE DecodeSpecialCases(self, dataclass_from_dict(types_by_id[m_id], msgdict), opname)

\* _decode with type_key set: the id is popped from the document.
DecodeTypeKey(self, msgfull, types_by_id, opname) ==
    IF self.type_key \notin DOMAIN msgfull THEN Raise("KeyError", <<self.type_key>>)
    ELSE IF ~IsInt(msgfull[self.type_key]) THEN Raise("AssertionError", NoText)
    ELSE DecodeType(self, msgfull[self.type_key].i,
                    [x \in DOMAIN msgfull \ {self.type_key} |-> Lower(msgfull[x])],
                    types_by_id, opname)

\* _decode without type_key: the id is under 't', the payload under 'm'.
DecodeEnvelope(self, m_id, msgdict, types_by_id, opname) ==
    IF ~IsInt(m_id) THEN Raise("AssertionError", NoText)
    ELSE IF msgdict.k # "dict" THEN Raise("AssertionError", NoText)
    ELSE DecodeType(self, m_id.i, msgdict.d, types_by_id, opname)

\* _decode from the outcome of json.loads.
DecodeLoaded(self, loaded, types_by_id, opname) ==
    IF loaded.raised THEN loaded
    ELSE IF loaded.val.form # "dict" THEN Raise("AssertionError", NoText)
    ELSE IF self.type_key # NoneKey
    THEN DecodeTypeKey(self, loaded.val.obj, types_by_id, opname)
    ELSE DecodeEnvelope(self, DictGet(loaded.val.obj, "t", Top(JNull)), DictGet(loaded.val.obj, "m", Top(JNull)),
                        types_by_id, opname)

\* _decode(data, types_by_id, opname)
Decode(self, data, types_by_id, opname) == DecodeLoaded(self, JsonLoads(data), types_by_id, opname)

\* The assertion of decode_message on what _decode returned.
AssertIsMessage(out) ==
    IF out.raised THEN out
    ELSE IF ~issubclass(out.val.tp, "Message") THEN Raise("AssertionError", NoText)
    ELSE out

\* The assertion of decode_response on what _decode returned.
AssertIsResponseOrNone(out) ==
    IF out.raised THEN out
    ELSE IF ~(issubclass(out.val.tp, "Response") \/ out.val = NoneVal) THEN Raise("AssertionError", NoText)
    ELSE out

\* decode_message(data)
decode_message(self, data) == AssertIsMessage(Decode(self, data, self.message_types_by_id, "message"))

\* decode_response(data)
decode_response(self, data) == AssertIsResponseOrNone(Decode(self, data, self.response_types_by_id, "response"))

--------------------------------------------------------------------------
(* MessageReceiver *)

\* A callable passed to register_handler, as its reflection sees it: its
\* argument names, the annotation of msg, and the objects of the return
\* annotation (the args of a Union, or the single annotation).
Call(name, args, msg, targs) == [name |-> name, args |-> args, msg |-> msg, targs |-> targs]

\* isinstance(x, type), for an annotation x.
IsType(x) == x \in AllTypes

\* The response types a callable declares; a return type of None
\* translates to EmptyResponse.
DeclaredResponseTypes(call) ==
    {IF call.targs[x] = "NoneType" THEN "EmptyResponse" ELSE call.targs[x] : x \in DOMAIN call.targs}

\* ResponseTypesMatch as it would be if a handler could declare a subset
\* of the message's response types.
ResponseTypesSubset(responsetypes, msgtype) ==
    responsetypes \subseteq ListToSet(get_response_types(msgtype))

\* The comparison of the declared response types with the message's.
ResponseTypesMatch(responsetypes, msgtype) ==
    responsetypes = ListToSet(get_response_types(msgtype))

\* The checks of register_handler on the callable's signature and
\* annotations: the exception raised, or a return when they all pass.
CheckAnnotations(call) ==
    IF call.args # <<"self", "msg">>
    THEN Raise("ValueError", <<"Expected callable signature of self, msg">>)
    ELSE IF ~IsType(call.msg)
    THEN Raise("TypeError", <<"expected a type for msg annotation">>)
    ELSE IF ~issubclass(call.msg, "Message") THEN Raise("AssertionError", NoText)
    ELSE IF \E x \in DOMAIN call.targs : ~IsType(call.targs[x])
    THEN Raise("TypeError", <<"expected one or more types for return annotation">>)
    ELSE Return(NoneVal)

\* CheckRegistration without the check for a handler already registered.
CheckRegistrationRebinding(protocol_, handlers_, call) ==
    IF call.msg \notin DOMAIN protocol_.message_ids_by_type
    THEN Raise("TypeError", <<"Message type", call.msg, "is not registered in this Protocol.">>)
    ELSE IF DeclaredResponseTypes(call) # ListToSet(get_response_types(call.msg))
    THEN Raise("TypeError", <<"Provided response types do not match the set expected by message type", call.msg>>)
    ELSE Return(NoneVal)

\* CheckRegistration without the check against the protocol's registry.
CheckRegistrationUnregistered(protocol_, handlers_, call) ==
    IF call.msg \in DOMAIN handlers_
    THEN Raise("TypeError", <<"Message type", call.msg, "already has a registered handler.">>)
    ELSE IF DeclaredResponseTypes(call) # ListToSet(get_response_types(call.msg))
    THEN Raise("TypeError", <<"Provided response types do not match the set expected by message type", call.msg>>)
    ELSE Return(NoneVal)

\* The checks of register_handler against the protocol and the handlers
\* already registered.
CheckRegistration(protocol_, handlers_, call) ==
    IF call.msg \notin DOMAIN protocol_.message_ids_by_type
    THEN Raise("TypeError", <<"Message type", call.msg, "is not registered in this Protocol.">>)
    ELSE IF call.msg \in DOMAIN handlers_
    THEN Raise("TypeError", <<"Message type", call.msg, "already has a registered handler.">>)
    ELSE IF ~ResponseTypesMatch(DeclaredResponseTypes(call), call.msg)
    THEN Raise("TypeError", <<"Provided response types do not match the set expected by message type", call.msg>>)
    ELSE Return(NoneVal)

\* StoreHandler as it would be if the handler were stored before the
\* checks.
StoreHandlerFirst(handlers_, call, checked) ==
    [result |-> checked, handlers |-> DictSet(handlers_, call.msg, call)]

\* The end of register_handler: the handler is stored unless a check
\* raised.
StoreHandler(handlers_, call, checked) ==
    [result |-> checked,
     handlers |-> IF checked.raised THEN handlers_ ELSE DictSet(handlers_, call.msg, call)]

\* The checks of register_handler in their order.
CheckCall(protocol_, handlers_, call, annotations) ==
    IF annotations.raised THEN annotations ELSE CheckRegistration(protocol_, handlers_, call)

\* register_handler(call): the outcome and the handler map afterwards.
register_handler(protocol_, handlers_, call) ==
    StoreHandler(handlers_, call, CheckCall(protocol_, handlers_, call, CheckAnnotations(call)))

\* Unhandled without the skip of the message types that are Responses.
UnhandledWithResponses(protocol_, handlers_) ==
    {msgtype \in DOMAIN protocol_.message_ids_by_type : msgtype \notin DOMAIN handlers_}

\* The message types validate() finds without handler.
Unhandled(protocol_, handlers_) ==
    {msgtype \in DOMAIN protocol_.message_ids_by_type :
        ~issubclass(msgtype, "Response") /\ msgtype \notin DOMAIN handlers_}

\* The first message type validate() finds without handler. The loop
\* visits the message types in registration order, which is the order of
\* their ids in the protocols below.
FirstUnhandled(protocol_, missing) ==
    CHOOSE m \in missing :
        \A o \in missing : protocol_.message_ids_by_type[m] <= protocol_.message_ids_by_type[o]

\* The body of validate's loop for the types without handler.
ValidateMissing(protocol_, missing, warn_only) ==
    IF missing = {} THEN [result |-> Return(NoneVal), warned |-> FALSE]
    ELSE [result |-> Raise("TypeError", <<"Protocol message", FirstUnhandled(protocol_, missing),
                                          "not handled by receiver.">>),
          warned |-> warn_only]

\* validate(warn_only): the outcome and whether a warning was logged.
validate(protocol_, handlers_, warn_only) ==
    ValidateMissing(protocol_, Unhandled(protocol_, handlers_), warn_only)

\* EmptyResponse()
EmptyResponse == [tp |-> "EmptyResponse", f |-> EmptyDict]

\* ErrorResponse(error_message=..., error_type=...)
ErrorResponse(error_message, error_type) ==
    [tp |-> "ErrorResponse", f |-> [error_message |-> StrVal(error_message), error_type |-> EnumVal(error_type)]]

\* The assertions on a handler's result before it is encoded.
ResponseAllowed(response, msgtype) ==
    /\ issubclass(response.tp, "Response")
    /\ response.tp # "ErrorResponse"
    /\ response.tp \in ListToSet(get_response_types(msgtype))

\* The try block of handle_raw_message after the handler returned: None
\* stands for EmptyResponse, and the response is checked and encoded.
HandleResponse(protocol_, response, msgtype) ==
    IF ~ResponseAllowed(response, msgtype) THEN Raise("AssertionError", NoText)
    ELSE encode_response(protocol_, response)

\* HandleDecoded as it would be if a message type without handler were
\* given to a handler of another type.
HandleDecodedFallingBack(protocol_, handlers_, msg_decoded, outcome) ==
    IF msg_decoded.raised
    THEN [out |-> msg_decoded, decoded |-> NoneVal, invoked |-> <<>>]
    ELSE IF ~issubclass(msg_decoded.val.tp, "Message")
    THEN [out |-> Raise("AssertionError", NoText), decoded |-> msg_decoded.val, invoked |-> <<>>]
    ELSE IF DOMAIN handlers_ = {}
    THEN [out |-> Raise("RuntimeError", <<"Got unhandled message type:", msg_decoded.val.tp>>),
          decoded |-> msg_decoded.val, invoked |-> <<>>]
    ELSE [out |-> IF outcome.raised THEN outcome
                  ELSE HandleResponse(protocol_,
                                      IF outcome.val = NoneVal THEN EmptyResponse ELSE outcome.val,
                                      msg_decoded.val.tp),
          decoded |-> msg_decoded.val,
          invoked |-> <<IF msg_decoded.val.tp \in DOMAIN handlers_
                        THEN handlers_[msg_decoded.val.tp]
                        ELSE handlers_[CHOOSE m \in DOMAIN handlers_ : TRUE]>>]

\* The try block of handle_raw_message after decoding. `outcome` is what
\* the handler does if it is called. Gives the encoded response or the
\* exception caught, the decoded message and the handlers called.
HandleDecoded(protocol_, handlers_, msg_decoded, outcome) ==
    IF msg_decoded.raised
    THEN [out |-> msg_decoded, decoded |-> NoneVal, invoked |-> <<>>]
    ELSE IF ~issubclass(msg_decoded.val.tp, "Message")
    THEN [out |-> Raise("AssertionError", NoText), decoded |-> msg_decoded.val, invoked |-> <<>>]
    ELSE IF msg_decoded.val.tp \notin DOMAIN handlers_
    THEN [out |-> Raise("RuntimeError", <<"Got unhandled message type:", msg_decoded.val.tp>>),
          decoded |-> msg_decoded.val, invoked |-> <<>>]
    ELSE [out |-> IF outcome.raised THEN outcome
                  ELSE HandleResponse(protocol_,
                                      IF outcome.val = NoneVal THEN EmptyResponse ELSE outcome.val,
                                      msg_decoded.val.tp),
          decoded |-> msg_decoded.val,
          invoked |-> <<handlers_[msg_decoded.val.tp]>>]

\* The try block of handle_raw_message.
HandleTry(protocol_, handlers_, msg, outcome) ==
    HandleDecoded(protocol_, handlers_, decode_message(protocol_, msg), outcome)

\* The fixed message an untrusted sender gets.
UnknownErrorMessage == <<"An unknown error has occurred.">>

\* traceback.format_exc() in the except block: it ends with the class and
\* the text of the exception being handled.
format_exc(exc) == <<"Traceback (most recent call last):", exc.exc>> \o exc.text

\* MakeErrorResponse as it would be if an exception that is logged were
\* also described to the sender.
MakeErrorResponseDetailWhenLogged(protocol_, exc) ==
    IF exc.exc = "CleanError" /\ protocol_.preserve_clean_errors
    THEN ErrorResponse(exc.text, ErrorType.CLEAN)
    ELSE ErrorResponse(IF protocol_.trusted_sender \/ protocol_.log_remote_exceptions
                       THEN format_exc(exc) ELSE UnknownErrorMessage,
                       ErrorType.OTHER)

\* MakeErrorResponse as it would be if clean errors were not told apart.
MakeErrorResponseAlwaysOther(protocol_, exc) ==
    ErrorResponse(IF protocol_.trusted_sender THEN format_exc(exc) ELSE UnknownErrorMessage,
                  ErrorType.OTHER)

\* MakeErrorResponse as it would be if trusted_sender were not consulted.
MakeErrorResponseTrusting(protocol_, exc) ==
    IF exc.exc = "CleanError" /\ protocol_.preserve_clean_errors
    THEN ErrorResponse(exc.text, ErrorType.CLEAN)
    ELSE ErrorResponse(format_exc(exc), ErrorType.OTHER)

\* The ErrorResponse the except block builds for the exception caught.
MakeErrorResponse(protocol_, exc) ==
    IF exc.exc = "CleanError" /\ protocol_.preserve_clean_errors
    THEN ErrorResponse(exc.text, ErrorType.CLEAN)
    ELSE ErrorResponse(IF protocol_.trusted_sender THEN format_exc(exc) ELSE UnknownErrorMessage,
                       ErrorType.OTHER)

\* The except block of handle_raw_message, for the ErrorResponse built.
HandleExcept(protocol_, try, err_response) ==
    [result |-> encode_response(protocol_, err_response),
     decoded |-> try.decoded, invoked |-> try.invoked,
     caught |-> try.out,
     logged |-> protocol_.log_remote_exceptions,
     err_response |-> err_response]

\* handle_raw_message after its try block.
HandleFinish(protocol_, try) ==
    IF ~try.out.raised
    THEN [result |-> try.out, decoded |-> try.decoded, invoked |-> try.invoked,
          caught |-> Return(NoneVal), logged |-> FALSE, err_response |-> NoneVal]
    ELSE HandleExcept(protocol_, try, MakeErrorResponse(protocol_, try.out))

\* handle_raw_message(bound_obj, msg): the bytes returned or the
\* exception raised (result), the decoded message, the handlers called,
\* the exception caught, whether it was logged, and the ErrorResponse
\* built.
handle_raw_message(protocol_, handlers_, msg, outcome) ==
    HandleFinish(protocol_, HandleTry(protocol_, handlers_, msg, outcome))

\* await handle_raw_message_async(msg): the outcome and the handlers
\* called.
handle_raw_message_async(protocol_, handlers_, msg) ==
    [result |-> Raise("RuntimeError", <<"Unimplemented!">>), invoked |-> <<>>]

--------------------------------------------------------------------------
(* MessageSender *)

\* _send_raw_message_call is None
NoCall == "None"

\* send_raw_handler as it would be without its assertion.
SendRawHandlerReplacing(send_raw_message_call_, call) ==
    [result |-> Return(NoneVal), call |-> call]

\* send_raw_handler(call): the outcome and the callback afterwards.
send_raw_handler(send_raw_message_call_, call) ==
    IF send_raw_message_call_ # NoCall
    THEN [result |-> Raise("AssertionError", NoText), call |-> send_raw_message_call_]
    ELSE [result |-> Return(NoneVal), call |-> call]

\* SendResponseAllowed as it would be without the membership assertion.
SendResponseAnyType(response, message) ==
    issubclass(response.tp, "Response") \/ response = NoneVal

\* The assertions of send on the decoded response.
SendResponseAllowed(response, message) ==
    /\ issubclass(response.tp, "Response") \/ response = NoneVal
    /\ response = NoneVal \/ response.tp \in ListToSet(get_response_types(message.tp))

\* The registered callback called with the encoded message. The callback
\* "deliver" hands the bytes to the receiver's handle_raw_message and
\* returns what it returns; any other callback is a transport whose
\* outcome is `reply`.
RawSend(protocol_, handlers_, send_raw_message_call_, msg_encoded, outcome, reply) ==
    IF send_raw_message_call_ = "deliver"
    THEN handle_raw_message(protocol_, handlers_, msg_encoded, outcome).result
    ELSE reply

\* The end of send: the decoded response is checked and returned.
SendFinish(message, response) ==
    IF response.raised THEN response
    ELSE IF ~SendResponseAllowed(response.val, message) THEN Raise("AssertionError", NoText)
    ELSE response

\* SendDecode as it would be if the callback were called a second time
\* with the same bytes.
SendDecodeResending(protocol_, message, msg_encoded, response_encoded) ==
    [encoded |-> <<Return(msg_encoded)>>,
     sent |-> <<msg_encoded, msg_encoded>>,
     reply |-> response_encoded,
     result |-> IF response_encoded.raised THEN response_encoded
                ELSE SendFinish(message, decode_response(protocol_, response_encoded.val))]

\* send after the callback returned or raised.
SendDecode(protocol_, message, msg_encoded, response_encoded) ==
    [encoded |-> <<Return(msg_encoded)>>,
     sent |-> <<msg_encoded>>,
     reply |-> response_encoded,
     result |-> IF response_encoded.raised THEN response_encoded
                ELSE SendFinish(message, decode_response(protocol_, response_encoded.val))]

\* send after the message was encoded.
SendEncoded(protocol_, handlers_, send_raw_message_call_, message, msg_encoded, outcome, reply) ==
    IF msg_encoded.raised
    THEN [result |-> msg_encoded, encoded |-> <<msg_encoded>>, sent |-> <<>>, reply |-> Return(NoneVal)]
    ELSE SendDecode(protocol_, message, msg_encoded.val,
                    RawSend(protocol_, handlers_, send_raw_message_call_, msg_encoded.val, outcome, reply))

\* send as it would be if the callback were looked at only after the
\* message was encoded.
SendEncodingFirst(protocol_, handlers_, send_raw_message_call_, message, outcome, reply) ==
    IF encode_message(protocol_, message).raised \/ send_raw_message_call_ # NoCall
    THEN SendEncoded(protocol_, handlers_, send_raw_message_call_, message,
                     encode_message(protocol_, message), outcome, reply)
    ELSE [result |-> Raise("RuntimeError", <<"send() is unimplemented for this type.">>),
          encoded |-> <<encode_message(protocol_, message)>>, sent |-> <<>>, reply |-> Return(NoneVal)]

\* send(bound_obj, message): the outcome, the outcomes of the
\* encode_message calls made, the byte strings the callback was called
\* with, and what the callback answered.
send(protocol_, handlers_, send_raw_message_call_, message, outcome, reply) ==
    IF send_raw_message_call_ = NoCall
    THEN [result |-> Raise("RuntimeError", <<"send() is unimplemented for this type.">>),
          encoded |-> <<>>, sent |-> <<>>, reply |-> Return(NoneVal)]
    ELSE SendEncoded(protocol_, handlers_, send_raw_message_call_, message,
                     encode_message(protocol_, message), outcome, reply)

\* send_bg as it would be if it handed the encoded message to the
\* callback and returned.
SendBgSending(protocol_, message) ==
    [result |-> Return(message), sent |-> <<encode_message(protocol_, message)>>]

\* send_bg(bound_obj, message): the outcome and the byte strings handed
\* to the callback.
send_bg(protocol_, message) ==
    [result |-> Raise("RuntimeError", <<"Unimplemented!">>), sent |-> <<>>]

\* send_async(bound_obj, message)
send_async(protocol_, message) ==
    [result |-> Raise("RuntimeError", <<"Unimplemented!">>), sent |-> <<>>]

--------------------------------------------------------------------------
(* The protocols, and the inputs of the operations *)

\* The message_types and response_types arguments, as <<id, type>> items.
SchemaMessageTypes == <<<<0, "Ping">>, <<1, "Shutdown">>, <<2, "Relay">>>>

SchemaResponseTypes == <<<<0, "Pong">>, <<1, "Relay">>>>

\* type_key: none, a key that is a storage key of Relay, one that is a
\* storage key of ErrorResponse, and one that is a storage key of Pong.
TypeKeys == {NoneKey, "k", "t", "reply"}

Protocols ==
    LET made == {MessageProtocolInit(SchemaMessageTypes, SchemaResponseTypes, key, pce, lre, ts) :
                    key \in TypeKeys, pce \in BOOLEAN, lre \in BOOLEAN, ts \in BOOLEAN}
    IN  {c.self : c \in {x \in made : x.ok}}

Texts == {<<"no permission", ToString(n)>> : n \in 1..NumTexts}

Ping(n) == [tp |-> "Ping", f |-> [message |-> IntVal(n)]]

Shutdown == [tp |-> "Shutdown", f |-> EmptyDict]

Relay(n) == [tp |-> "Relay", f |-> [hops |-> IntVal(n)]]

Stray == [tp |-> "Stray", f |-> EmptyDict]

Pong(t) == [tp |-> "Pong", f |-> [reply |-> StrVal(t)]]

\* The messages given to send.
Messages == {Ping(n) : n \in 0..MaxInt} \cup {Shutdown, Relay(MaxInt), Stray}

\* What a handler does when it is called.
HandlerOutcomes ==
    {Return(r) : r \in {NoneVal, EmptyResponse, Pong(<<"pong">>), Relay(0), PlainObject,
                        ErrorResponse(<<"made by handler">>, ErrorType.CLEAN)}}
    \cup {Raise(e, t) : e \in {"CleanError", "ValueError"}, t \in Texts}

\* The outcome recorded for a call in which no handler ran.
NotCalled == Raise("", NoText)

\* The callables given to register_handler.
Calls ==
    {Call(n, <<"self", "msg">>, "Ping", r) :
        n \in {"h1", "h2"},
        r \in {<<"Pong">>, <<"NoneType">>, <<"Pong", "NoneType">>, <<"Pong", "Relay">>, <<"not a type">>}}
    \cup {Call("h1", <<"self", "msg">>, m, r) :
            m \in {"Shutdown", "Relay"},
            r \in {<<"Pong">>, <<"NoneType">>, <<"EmptyResponse">>, <<"Pong", "NoneType">>, <<"Pong", "Relay">>}}
    \cup {Call("h1", <<"self", "msg">>, m, <<"NoneType">>) : m \in {"Stray", "Pong", "not a type"}}
    \cup {Call("h1", <<"msg">>, "Ping", <<"Pong">>)}

\* Type ids and payloads of the documents on the wire: the registered ids
\* with payloads that fit, fit with a default or do not fit their type,
\* and ids that are not registered.
WirePayloads ==
    {<<0, [message |-> JInt(n)]>> : n \in 0..MaxInt}
    \cup {<<0, EmptyDict>>, <<0, [message |-> JStr(<<"x">>)]>>, <<0, [reply |-> JStr(<<"pong">>)]>>,
          <<1, EmptyDict>>, <<1, [k |-> JInt(0)]>>,
          <<2, [k |-> JInt(MaxInt)]>>, <<2, EmptyDict>>,
          <<-2, EmptyDict>>}
    \cup {<<-1, [m |-> JStr(t), t |-> JInt(e)]>> : t \in Texts, e \in {ErrorType.OTHER, ErrorType.CLEAN}}
    \cup {<<id, EmptyDict>> : id \in 3..MaxId}

TopDict(d) == [x \in DOMAIN d |-> Top(d[x])]

\* The byte strings that arrive: documents of the envelope layout and of
\* the type-key layouts, and malformed ones.
WireInputs ==
    {JsonDumps(DictSet(DictSet(EmptyDict, "m", JDict(w[2])), "t", Top(JInt(w[1])))) : w \in WirePayloads}
    \cup {JsonDumps(DictSet(TopDict(w[2]), key, Top(JInt(w[1])))) :
            w \in {x \in WirePayloads : DOMAIN x[2] \cap TypeKeys = {}}, key \in TypeKeys \ {NoneKey}}
    \cup {GarbageBytes, ListBytes,
          JsonDumps(DictSet(EmptyDict, "m", JDict(EmptyDict))),
          JsonDumps(DictSet(DictSet(EmptyDict, "m", JDict(EmptyDict)), "t", Top(JStr(<<"1">>)))),
          JsonDumps(DictSet(DictSet(EmptyDict, "m", JDict(EmptyDict)), "t", Top(JBool(1)))),
          JsonDumps(DictSet(DictSet(EmptyDict, "m", Top(JInt(0))), "t", Top(JInt(1))))}

\* What a transport other than "deliver" answers.
TransportReplies ==
    {Return(b) : b \in WireInputs} \cup {Raise("CommunicationError", <<"connection lost">>)}

--------------------------------------------------------------------------
(* The state machine *)

VARIABLES
    protocol,               \* the MessageProtocol shared by sender and receiver
    handlers,               \* MessageReceiver._handlers
    send_raw_message_call,  \* MessageSender._send_raw_message_call
    last,                   \* the call that just ended, with its outcome
    calls                   \* the calls in progress in concurrent threads, by thread

vars == <<protocol, handlers, send_raw_message_call, last, calls>>

Idle == [op |-> "idle"]

\* No thread is started.
NoCalls == <<>>

\* MessageProtocol(...), MessageSender(protocol), MessageReceiver(protocol)
Init ==
    /\ protocol \in Protocols
    /\ handlers = EmptyDict
    /\ send_raw_message_call = NoCall
    /\ last = Idle
    /\ calls = NoCalls

RegisterHandlerCall(call, r) ==
    /\ handlers' = r.handlers
    /\ last' = [op |-> "register_handler", call |-> call, result |-> r.result, before |-> handlers]

RegisterHandler ==
    /\ last = Idle
    /\ \E call \in Calls : RegisterHandlerCall(call, register_handler(protocol, handlers, call))
    /\ UNCHANGED <<protocol, send_raw_message_call, calls>>

ValidateCall(warn_only, r) ==
    last' = [op |-> "validate", warn_only |-> warn_only, result |-> r.result, warned |-> r.warned]

Validate ==
    /\ last = Idle
    /\ \E warn_only \in BOOLEAN : ValidateCall(warn_only, validate(protocol, handlers, warn_only))
    /\ UNCHANGED <<protocol, handlers, send_raw_message_call, calls>>

\* Whether handle_raw_message calls a handler for the decoded message.
ReachesHandler(handlers_, msg_decoded) ==
    ~msg_decoded.raised /\ msg_decoded.val.tp \in DOMAIN handlers_

\* What the handler may do in a call: nothing when it is not reached.
OutcomesIf(reached) == IF reached THEN HandlerOutcomes ELSE {NotCalled}

HandleRawMessageCall(msg, outcome, r) ==
    last' = [op |-> "handle_raw_message", msg |-> msg, outcome |-> outcome,
             result |-> r.result, decoded |-> r.decoded, invoked |-> r.invoked,
             caught |-> r.caught, logged |-> r.logged, err_response |-> r.err_response]

\* HandleRawMessage as it would be if handling a message switched the
\* protocol's logging off.
HandleRawMessageSilencing ==
    /\ last = Idle
    /\ \E msg \in WireInputs :
          \E outcome \in OutcomesIf(ReachesHandler(handlers, decode_message(protocol, msg))) :
              HandleRawMessageCall(msg, outcome, handle_raw_message(protocol, handlers, msg, outcome))
    /\ protocol' = [protocol EXCEPT !.log_remote_exceptions = FALSE]
    /\ UNCHANGED <<handlers, send_raw_message_call, calls>>

HandleRawMessage ==
    /\ last = Idle
    /\ \E msg \in WireInputs :
          \E outcome \in OutcomesIf(ReachesHandler(handlers, decode_message(protocol, msg))) :
              HandleRawMessageCall(msg, outcome, handle_raw_message(protocol, handlers, msg, outcome))
    /\ UNCHANGED <<protocol, handlers, send_raw_message_call, calls>>

SendRawHandlerCall(call, r) ==
    /\ send_raw_message_call' = r.call
    /\ last' = [op |-> "send_raw_handler", call |-> call, result |-> r.result,
                before |-> send_raw_message_call]

SendRawHandler ==
    /\ last = Idle
    /\ \E call \in {"deliver", "transport"} :
          SendRawHandlerCall(call, send_raw_handler(send_raw_message_call, call))
    /\ UNCHANGED <<protocol, handlers, calls>>

\* The message the receiver decoded in a delivered send.
Received(protocol_, sent) ==
    IF sent = <<>> THEN Return(NoneVal) ELSE decode_message(protocol_, sent[1])

SendCall(message, outcome, r) ==
    last' = [op |-> "send", message |-> message, via |-> send_raw_message_call, outcome |-> outcome,
             result |-> r.result, encoded |-> r.encoded, sent |-> r.sent, reply |-> r.reply]

\* Whether a send reaches a handler of the receiver.
SendReachesHandler(msg_encoded) ==
    /\ send_raw_message_call = "deliver"
    /\ ~msg_encoded.raised
    /\ ReachesHandler(handlers, decode_message(protocol, msg_encoded.val))

\* send through a callback that delivers to the receiver (or with none).
SendDelivered ==
    /\ last = Idle
    /\ send_raw_message_call # "transport"
    /\ \E message \in Messages :
          \E outcome \in OutcomesIf(SendReachesHandler(encode_message(protocol, message))) :
              SendCall(message, outcome,
                       send(protocol, handlers, send_raw_message_call, message, outcome, NotCalled))
    /\ UNCHANGED <<protocol, handlers, send_raw_message_call, calls>>

\* send through any other transport.
SendTransported ==
    /\ last = Idle
    /\ send_raw_message_call = "transport"
    /\ \E message \in Messages, reply \in TransportReplies :
          SendCall(message, NotCalled,
                   send(protocol, handlers, send_raw_message_call, message, NotCalled, reply))
    /\ UNCHANGED <<protocol, handlers, send_raw_message_call, calls>>

\* The caller takes the outcome of the call and goes on.
ReturnToCaller ==
    /\ last # Idle
    /\ last' = Idle
    /\ UNCHANGED <<protocol, handlers, send_raw_message_call, calls>>

\* The receiving endpoint: setup of the handlers, then dispatch.
Next ==
    \/ RegisterHandler
    \/ Validate
    \/ HandleRawMessage
    \/ ReturnToCaller

Spec == Init /\ [][Next]_vars

\* Both endpoints: the sender's callback delivers to the receiver, or is
\* another transport.
NextSend ==
    \/ RegisterHandler
    \/ SendRawHandler
    \/ SendDelivered
    \/ SendTransported
    \/ ReturnToCaller

SpecSend == Init /\ [][NextSend]_vars

AsyncSendCall(opname, message, r) ==
    last' = [op |-> opname, message |-> message, result |-> r.result, sent |-> r.sent]

SendBg ==
    /\ last = Idle
    /\ \E message \in Messages : AsyncSendCall("send_bg", message, send_bg(protocol, message))
    /\ UNCHANGED <<protocol, handlers, send_raw_message_call, calls>>

SendAsync ==
    /\ last = Idle
    /\ \E message \in Messages : AsyncSendCall("send_async", message, send_async(protocol, message))
    /\ UNCHANGED <<protocol, handlers, send_raw_message_call, calls>>

HandleRawMessageAsyncCall(r) ==
    last' = [op |-> "handle_raw_message_async", result |-> r.result, invoked |-> r.invoked]

\* The coroutine of handle_raw_message_async(msg) is awaited, for any
\* bytes.
HandleRawMessageAsync ==
    /\ last = Idle
    /\ \E msg \in WireInputs : HandleRawMessageAsyncCall(handle_raw_message_async(protocol, handlers, msg))
    /\ UNCHANGED <<protocol, handlers, send_raw_message_call, calls>>

\* Every operation of the two endpoints, with bytes arriving at the
\* receiver from the sender of the model and from elsewhere.
NextEndpoints ==
    \/ RegisterHandler
    \/ Validate
    \/ HandleRawMessage
    \/ HandleRawMessageAsync
    \/ SendRawHandler
    \/ SendDelivered
    \/ SendTransported
    \/ SendBg
    \/ SendAsync
    \/ ReturnToCaller

SpecEndpoints == Init /\ [][NextEndpoints]_vars

--------------------------------------------------------------------------
(* Construction of a protocol, and the codec called directly *)

\* Largest type id in the arguments of the constructor.
MaxTypeId == 1

\* A dict argument of the constructor: up to two entries, with distinct
\* ids (the keys of a dict), negative ones included.
RegistryArgs(types) ==
    {<<>>}
    \cup {<<<<id, tp>>>> : id \in -1..MaxTypeId, tp \in types}
    \cup {<<<<id, tp1>>, <<id + 1, tp2>>>> : id \in -1..(MaxTypeId - 1), tp1 \in types, tp2 \in types}

\* message_types: message classes, and a class that is no Message.
MessageTypesArgs ==
    RegistryArgs({"Ping", "Shutdown", "Relay", "legacy.Ping", "requests.Pong", "Mute", "Echo", "Pong"})

\* response_types: response classes, and a class that is no Response.
ResponseTypesArgs ==
    RegistryArgs({"Pong", "legacy.Pong", "Relay", "EmptyResponse", "ErrorResponse", "Ping"})

\* No protocol has been constructed.
NoProtocol == [constructed |-> FALSE]

\* The instances given to encode_message and encode_response.
CodecMessages ==
    {Ping(MaxInt), Shutdown, Relay(MaxInt), Stray,
     [tp |-> "legacy.Ping", f |-> [message |-> IntVal(MaxInt)]],
     [tp |-> "requests.Pong", f |-> EmptyDict]}

CodecResponses ==
    {Pong(<<"pong">>), Relay(0), EmptyResponse, [tp |-> "legacy.Pong", f |-> [reply |-> StrVal(<<"pong">>)]]}
    \cup {ErrorResponse(t, e) : t \in Texts, e \in {ErrorType.OTHER, ErrorType.CLEAN}}

\* The byte strings that carry one of the reserved ids.
ReservedWireInputs ==
    {b \in WireInputs :
        /\ b.form = "dict"
        /\ \E key \in (TypeKeys \ {NoneKey}) \cap DOMAIN b.obj : b.obj[key].k = "int" /\ b.obj[key].i < 0}

\* Documents with an empty payload, of every layout and type id.
BareWireInputs ==
    {b \in WireInputs :
        /\ b.form = "dict"
        /\ \/ /\ DOMAIN b.obj = {"m", "t"}
              /\ b.obj["m"] = JDict(EmptyDict) /\ b.obj["t"].k = "int"
           \/ \E key \in TypeKeys \ {NoneKey} : DOMAIN b.obj = {key} /\ b.obj[key].k = "int"}

\* The byte strings given to the decoders directly.
CodecWireInputs == ReservedWireInputs \cup BareWireInputs

InitProtocol ==
    /\ protocol = NoProtocol
    /\ handlers = EmptyDict
    /\ send_raw_message_call = NoCall
    /\ last = Idle
    /\ calls = NoCalls

ConstructCall(message_types, response_types, r) ==
    /\ protocol' = IF r.ok THEN r.self ELSE NoProtocol
    /\ last' = [op |-> "MessageProtocol", message_types |-> message_types, response_types |-> response_types,
                ok |-> r.ok]

\* MessageProtocol(message_types, response_types, type_key=...,
\* preserve_clean_errors=...)
Construct ==
    /\ last = Idle
    /\ protocol = NoProtocol
    /\ \E message_types \in MessageTypesArgs, response_types \in ResponseTypesArgs,
          type_key \in TypeKeys, preserve_clean_errors \in BOOLEAN :
          ConstructCall(message_types, response_types,
                        MessageProtocolInit(message_types, response_types, type_key,
                                            preserve_clean_errors, TRUE, FALSE))
    /\ UNCHANGED <<handlers, send_raw_message_call, calls>>

EncodeCall(opname, obj, r) ==
    last' = [op |-> opname, obj |-> obj, result |-> r]

\* protocol.encode_message(message)
EncodeMessage ==
    /\ last = Idle
    /\ protocol # NoProtocol
    /\ \E message \in CodecMessages : EncodeCall("encode_message", message, encode_message(protocol, message))
    /\ UNCHANGED <<protocol, handlers, send_raw_message_call, calls>>

\* protocol.encode_response(response)
EncodeResponse ==
    /\ last = Idle
    /\ protocol # NoProtocol
    /\ \E response \in CodecResponses : EncodeCall("encode_response", response, encode_response(protocol, response))
    /\ UNCHANGED <<protocol, handlers, send_raw_message_call, calls>>

\* `obj` is the instance the bytes were encoded from, None for bytes that
\* came from elsewhere.
DecodeCall(opname, data, obj, r) ==
    last' = [op |-> opname, data |-> data, obj |-> obj, result |-> r]

\* protocol.decode_message(data), for the bytes encode_message returned
DecodeMessage ==
    /\ last.op = "encode_message"
    /\ ~last.result.raised
    /\ DecodeCall("decode_message", last.result.val, last.obj, decode_message(protocol, last.result.val))
    /\ UNCHANGED <<protocol, handlers, send_raw_message_call, calls>>

\* protocol.decode_response(data), for the bytes encode_response returned
DecodeEncodedResponse ==
    /\ last.op = "encode_response"
    /\ ~last.result.raised
    /\ DecodeCall("decode_response", last.result.val, last.obj, decode_response(protocol, last.result.val))
    /\ UNCHANGED <<protocol, handlers, send_raw_message_call, calls>>

\* protocol.decode_message(data), for bytes from elsewhere
DecodeReceivedMessage ==
    /\ last = Idle
    /\ protocol # NoProtocol
    /\ \E data \in BareWireInputs : DecodeCall("decode_message", data, NoneVal, decode_message(protocol, data))
    /\ UNCHANGED <<protocol, handlers, send_raw_message_call, calls>>

\* protocol.decode_response(data), for bytes from elsewhere
DecodeResponse ==
    /\ last = Idle
    /\ protocol # NoProtocol
    /\ \E data \in CodecWireInputs : DecodeCall("decode_response", data, NoneVal, decode_response(protocol, data))
    /\ UNCHANGED <<protocol, handlers, send_raw_message_call, calls>>

\* A protocol is constructed and its codec used.
NextProtocol ==
    \/ Construct
    \/ EncodeMessage
    \/ EncodeResponse
    \/ DecodeMessage
    \/ DecodeEncodedResponse
    \/ DecodeReceivedMessage
    \/ DecodeResponse
    \/ ReturnToCaller

SpecProtocol == InitProtocol /\ [][NextProtocol]_vars

--------------------------------------------------------------------------
(* Concurrent calls after setup *)

\* The threads that call into the endpoints.
NumThreads == 2

Threads == 1..NumThreads

\* The handlers a receiver registers in its setup, one for each message
\* type of the schema.
SetupCalls ==
    <<Call("h1", <<"self", "msg">>, "Ping", <<"Pong">>),
      Call("h1", <<"self", "msg">>, "Shutdown", <<"NoneType">>),
      Call("h2", <<"self", "msg">>, "Relay", <<"Pong", "Relay">>)>>

\* The handler map after register_handler was called for the first n of
\* them.
RECURSIVE RegisterAll(_, _)
RegisterAll(protocol_, n) ==
    IF n = 0 THEN EmptyDict
    ELSE register_handler(protocol_, RegisterAll(protocol_, n - 1), SetupCalls[n]).handlers

\* The bytes given to the concurrent handle_raw_message calls: an encoded
\* Ping and bytes that do not decode.
ConcurrentInputs == {encode_message(protocol, Ping(0)).val, GarbageBytes}

\* What a handler does in a concurrent call.
ConcurrentOutcomes == {Return(Pong(<<"pong">>)), Raise("ValueError", <<"no permission", "1">>)}

\* What the transport answers in a concurrent call.
ConcurrentReplies ==
    {encode_response(protocol, EmptyResponse), Raise("CommunicationError", <<"connection lost">>)}

\* The state after the single-threaded setup: the protocol built, every
\* handler and the raw send callback registered, no call in progress.
InitConcurrent ==
    /\ protocol \in Protocols
    /\ handlers = RegisterAll(protocol, Len(SetupCalls))
    /\ send_raw_message_call \in {send_raw_handler(NoCall, call).call : call \in {"deliver", "transport"}}
    /\ last = Idle
    /\ calls = [t \in Threads |-> Idle]

\* Thread t is at `pc` of a call of `op`.
At(t, op, pc) == calls[t].op = op /\ calls[t].pc = pc

\* Thread t goes on with its locals changed; nothing else is written.
Step(t, locals) ==
    /\ calls' = [calls EXCEPT ![t] = locals]
    /\ UNCHANGED <<protocol, handlers, send_raw_message_call, last>>

\* handle_raw_message is entered and decode_message returns or raises.
HandleDecode(t) ==
    /\ calls[t] = Idle
    /\ \E msg \in ConcurrentInputs :
          Step(t, [op |-> "handle_raw_message", pc |-> "decoded", msg |-> msg,
                   msg_decoded |-> decode_message(protocol, msg)])

\* HandleDispatch as it would be if the handler looked up were taken out
\* of the handler map for the duration of the call.
HandleDispatchTakingHandler(t) ==
    /\ At(t, "handle_raw_message", "decoded")
    /\ \E outcome \in IF ReachesHandler(handlers, calls[t].msg_decoded) THEN ConcurrentOutcomes ELSE {NotCalled} :
          calls' = [calls EXCEPT ![t] =
                       [op |-> "handle_raw_message", pc |-> "tried", msg |-> calls[t].msg, outcome |-> outcome,
                        try |-> HandleDecoded(protocol, handlers, calls[t].msg_decoded, outcome)]]
    /\ handlers' = [m \in DOMAIN handlers \ {calls[t].msg_decoded.val.tp} |-> handlers[m]]
    /\ UNCHANGED <<protocol, send_raw_message_call, last>>

\* The rest of the try block: the handler is looked up and called, and
\* its response checked and encoded.
HandleDispatch(t) ==
    /\ At(t, "handle_raw_message", "decoded")
    /\ \E outcome \in IF ReachesHandler(handlers, calls[t].msg_decoded) THEN ConcurrentOutcomes ELSE {NotCalled} :
          Step(t, [op |-> "handle_raw_message", pc |-> "tried", msg |-> calls[t].msg, outcome |-> outcome,
                   try |-> HandleDecoded(protocol, handlers, calls[t].msg_decoded, outcome)])

\* The return of the try block, or the except block.
HandleReturn(t) ==
    /\ At(t, "handle_raw_message", "tried")
    /\ Step(t, [op |-> "handle_raw_message", pc |-> "done", msg |-> calls[t].msg, outcome |-> calls[t].outcome,
                result |-> HandleFinish(protocol, calls[t].try).result])

\* send is entered and reads the callback.
SendBegin(t) ==
    /\ calls[t] = Idle
    /\ \E message \in {Ping(0)} :
          Step(t, IF send_raw_message_call = NoCall
                  THEN [op |-> "send", pc |-> "done", message |-> message, outcome |-> NotCalled,
                        reply |-> Return(NoneVal),
                        result |-> Raise("RuntimeError", <<"send() is unimplemented for this type.">>)]
                  ELSE [op |-> "send", pc |-> "begun", message |-> message])

\* encode_message returns or raises.
SendEncode(t) ==
    /\ At(t, "send", "begun")
    /\ Step(t, IF encode_message(protocol, calls[t].message).raised
               THEN [op |-> "send", pc |-> "done", message |-> calls[t].message, outcome |-> NotCalled,
                     reply |-> Return(NoneVal), result |-> encode_message(protocol, calls[t].message)]
               ELSE [op |-> "send", pc |-> "encoded", message |-> calls[t].message,
                     msg_encoded |-> encode_message(protocol, calls[t].message).val])

\* What the handler and the transport may do in a send through the
\* callback registered.
SendOutcomes(msg_encoded) ==
    IF send_raw_message_call = "deliver"
    THEN {<<outcome, Return(NoneVal)>> :
            outcome \in IF ReachesHandler(handlers, decode_message(protocol, msg_encoded))
                        THEN ConcurrentOutcomes ELSE {NotCalled}}
    ELSE {<<NotCalled, reply>> : reply \in ConcurrentReplies}

\* The callback is called with the encoded message and returns or raises.
SendRaw(t) ==
    /\ At(t, "send", "encoded")
    /\ \E o \in SendOutcomes(calls[t].msg_encoded) :
          Step(t, [op |-> "send", pc |-> "replied", message |-> calls[t].message,
                   msg_encoded |-> calls[t].msg_encoded, outcome |-> o[1], reply |-> o[2],
                   response_encoded |-> RawSend(protocol, handlers, send_raw_message_call,
                                                calls[t].msg_encoded, o[1], o[2])])

\* The rest of send: the reply is decoded, checked and returned.
SendReturn(t) ==
    /\ At(t, "send", "replied")
    /\ Step(t, [op |-> "send", pc |-> "done", message |-> calls[t].message,
                outcome |-> calls[t].outcome, reply |-> calls[t].reply,
                result |-> SendDecode(protocol, calls[t].message, calls[t].msg_encoded,
                                      calls[t].response_encoded).result])

\* The caller of thread t takes the outcome of its call.
ThreadReturns(t) ==
    /\ calls[t] # Idle
    /\ calls[t].pc = "done"
    /\ Step(t, Idle)

NextConcurrent ==
    \E t \in Threads :
        \/ HandleDecode(t)
        \/ HandleDispatch(t)
        \/ HandleReturn(t)
        \/ SendBegin(t)
        \/ SendEncode(t)
        \/ SendRaw(t)
        \/ SendReturn(t)
        \/ ThreadReturns(t)

SpecConcurrent == InitConcurrent /\ [][NextConcurrent]_vars

--------------------------------------------------------------------------
(* Properties *)

Handled == last.op = "handle_raw_message"

Registered == last.op = "register_handler"

Validated == last.op = "validate"

SentDelivered == last.op = "send" /\ last.via = "deliver"

\* The handler was called and raised.
HandlerRaised == last.outcome.raised /\ last.outcome.exc # ""

\* The str t occurs in the str s.
ContainsText(s, t) ==
    \E n \in 0..(Len(s) - Len(t)) : SubSeq(s, n + 1, n + Len(t)) = t

\* The error message text in the bytes of an encoded ErrorResponse.
WireErrorText(bytes) ==
    IF protocol.type_key = NoneKey THEN bytes.obj["m"].d["m"].s ELSE bytes.obj["m"].s

\* The bytes of an ErrorResponse tagged OTHER with the fixed message.
UnknownErrorBytes ==
    IF protocol.type_key = NoneKey
    THEN JsonDumps([t |-> Top(JInt(protocol.response_ids_by_type["ErrorResponse"])),
                    m |-> JDict([m |-> JStr(UnknownErrorMessage), t |-> JInt(ErrorType.OTHER)])])
    ELSE JsonDumps(DictSet([m |-> Top(JStr(UnknownErrorMessage)), t |-> Top(JInt(ErrorType.OTHER))],
                           protocol.type_key,
                           Top(JInt(protocol.response_ids_by_type["ErrorResponse"]))))

\* C1: handle_raw_message never raises: for every protocol, handler map
\* and input it returns bytes that decode, under the protocol's response
\* registry, to a registered Response type (a response, no value, or an
\* ErrorResponse, which decoding turns into a clean or remote error).
C1_HandleAlwaysReturnsResponse ==
    Handled =>
        /\ ~last.result.raised
        /\ decode_response(protocol, last.result.val).exc \in {"", "CleanError", "RemoteError"}

\* C2: with preserve_clean_errors set, when the handler reached by a
\* delivered send raises a clean error with text s, send raises a clean
\* error with exactly the text s.
C2_CleanErrorReachesSender ==
    (SentDelivered /\ protocol.preserve_clean_errors /\ last.outcome.raised /\ last.outcome.exc = "CleanError") =>
        /\ last.result.raised
        /\ last.result.exc = "CleanError"
        /\ last.result.text = last.outcome.text

\* C3: when the handler reached by a delivered send raises an exception
\* that is not clean, or a clean one while preserve_clean_errors is unset,
\* send raises the generic remote error.
C3_OtherErrorReachesSenderAsRemoteError ==
    (SentDelivered /\ HandlerRaised /\ (last.outcome.exc # "CleanError" \/ ~protocol.preserve_clean_errors)) =>
        /\ last.result.raised
        /\ last.result.exc = "RemoteError"

\* C4 as stated: with trusted_sender unset, for any exception a handler
\* raises, the message of the ErrorResponse built is the fixed generic
\* string; with trusted_sender set it contains the exception's text.
C4_AnyHandlerExceptionIsOpaque ==
    (Handled /\ HandlerRaised) =>
        /\ ~protocol.trusted_sender => last.err_response.f["error_message"].s = UnknownErrorMessage
        /\ protocol.trusted_sender => ContainsText(last.err_response.f["error_message"].s, last.outcome.text)

\* C4 as amended: with trusted_sender unset, for an exception a handler
\* raises that is not a clean error, or any exception while
\* preserve_clean_errors is unset, the message of the ErrorResponse that
\* handle_raw_message builds, and of the bytes it returns, is the fixed
\* generic string, and for a clean error with preserve_clean_errors set
\* it is the error's own text; with trusted_sender set the message
\* contains the exception's text.
C4_HandlerExceptionIsOpaqueUnlessClean ==
    (Handled /\ HandlerRaised) =>
        /\ (~protocol.trusted_sender /\ ~(last.outcome.exc = "CleanError" /\ protocol.preserve_clean_errors)) =>
              /\ last.err_response.f["error_message"].s = UnknownErrorMessage
              /\ ~last.result.raised => WireErrorText(last.result.val) = UnknownErrorMessage
        /\ (last.outcome.exc = "CleanError" /\ protocol.preserve_clean_errors) =>
              last.err_response.f["error_message"].s = last.outcome.text
        /\ protocol.trusted_sender =>
              /\ ContainsText(last.err_response.f["error_message"].s, last.outcome.text)
              /\ ~last.result.raised => ContainsText(WireErrorText(last.result.val), last.outcome.text)

\* A handler raised an exception that is not clean, the sender is not
\* trusted, and the bytes returned carry the fixed generic string.
C4_Witness ==
    /\ Handled /\ HandlerRaised
    /\ last.outcome.exc = "ValueError"
    /\ ~protocol.trusted_sender
    /\ ~last.result.raised
    /\ WireErrorText(last.result.val) = UnknownErrorMessage

\* C5: with trusted_sender unset, whatever failure that is not a clean
\* error occurred (in decoding, in the handler, in an assertion),
\* handle_raw_message returns the same bytes: those of an ErrorResponse
\* tagged OTHER with the fixed generic message.
C5_FailureDetailNeverReturned ==
    (Handled /\ ~protocol.trusted_sender /\ last.caught.raised /\ last.caught.exc # "CleanError") =>
        last.result = Return(UnknownErrorBytes)

C7_WarnOnlyDoesNotRaise ==
    (Validated /\ last.warn_only /\ Unhandled(protocol, handlers) # {}) =>
        /\ last.warned
        /\ ~last.result.raised

\* C8: register_handler for a message type fails whenever the response
\* types the handler declares (None standing for EmptyResponse) are not
\* exactly the message type's get_response_types(), a strict subset or
\* superset included, and then stores no handler.
C8_ResponseTypesMustMatchExactly ==
    (/\ Registered
     /\ last.call.msg \in MessageSubclasses
     /\ {IF x = "NoneType" THEN "EmptyResponse" ELSE x : x \in ListToSet(last.call.targs)}
            # ListToSet(get_response_types(last.call.msg))) =>
        /\ last.result.raised
        /\ handlers = last.before

\* A handler for Relay that declares the strict subset {Pong} of Relay's
\* response types was refused for that reason.
C8_Witness ==
    /\ Registered
    /\ last.call.msg = "Relay" /\ last.call.targs = <<"Pong">>
    /\ last.result.raised
    /\ last.result.text[1] = "Provided response types do not match the set expected by message type"
    /\ "Relay" \notin DOMAIN handlers

\* C9: a register_handler call for a message type that already has a
\* handler fails, and no step ever removes or replaces a registered
\* handler.
C9_HandlerNeverRebound ==
    [][/\ \A msgtype \in DOMAIN handlers :
             msgtype \in DOMAIN handlers' /\ handlers'[msgtype] = handlers[msgtype]
       /\ (last'.op = "register_handler" /\ last'.call.msg \in DOMAIN handlers) => last'.result.raised]_vars

\* A second handler for Ping, with the right response types, was refused
\* and the first one is still registered.
C9_Witness ==
    /\ Registered
    /\ last.call = Call("h2", <<"self", "msg">>, "Ping", <<"Pong">>)
    /\ "Ping" \in DOMAIN last.before
    /\ last.result.raised
    /\ handlers["Ping"].name = "h1"

\* C10: register_handler for a message type that is not in the protocol's
\* message registry fails and leaves the handler map unchanged.
C10_UnregisteredMessageTypeRefused ==
    (Registered /\ last.call.msg \notin DOMAIN protocol.message_ids_by_type) =>
        /\ last.result.raised
        /\ handlers = last.before

\* A handler for the unregistered message type Stray was refused because
\* the type is not registered.
C10_Witness ==
    /\ Registered
    /\ last.call.msg = "Stray"
    /\ last.result.raised
    /\ last.result.text[3] = "is not registered in this Protocol."
    /\ handlers = last.before

\* The handler of the receiver was called in the send that just ended.
SendHandlerCalled == SentDelivered /\ last.outcome # NotCalled

\* C11: when the handler reached by a delivered send of a message whose
\* response types are [EmptyResponse] returns None, send returns None; and
\* no send returns an EmptyResponse instance, whatever bytes
\* decode_response was given.
C11_EmptyResponseArrivesAsNone ==
    /\ (/\ SendHandlerCalled
        /\ get_response_types(last.message.tp) = <<"EmptyResponse">>
        /\ last.outcome = Return(NoneVal)) => last.result = Return(NoneVal)
    /\ (last.op = "send" /\ ~last.result.raised) => last.result.val.tp # "EmptyResponse"

\* The handler for Shutdown returned None, the receiver answered with the
\* bytes of an EmptyResponse, and send returned None.
C11_Witness ==
    /\ SendHandlerCalled
    /\ last.message = Shutdown
    /\ last.outcome = Return(NoneVal)
    /\ last.reply = encode_response(protocol, EmptyResponse)
    /\ last.result = Return(NoneVal)

\* The storage keys of the fields of a type.
StorageKeys(tp) == {fld.key : fld \in Fields(tp)}

\* The handler called in the send that just ended returned a response of
\* a type the message declares, other than EmptyResponse.
SendHandlerReturnedDeclared ==
    /\ SendHandlerCalled
    /\ ~last.outcome.raised
    /\ last.outcome.val.tp \in ListToSet(get_response_types(last.message.tp)) \ {"EmptyResponse"}

\* C13 as stated: when the handler reached by a delivered send of m returns
\* a response r of a type that m declares (other than EmptyResponse), send
\* returns a value equal to r and the handler received a message equal
\* to m.
C13_SendReturnsHandlerResponse ==
    SendHandlerReturnedDeclared =>
        /\ last.result = Return(last.outcome.val)
        /\ Received(protocol, last.sent) = Return(last.message)

\* C13 as amended: the same, provided the protocol's type_key is not a
\* storage key of a field of r; when it is one, the response cannot be
\* encoded and send raises instead of returning r. In both cases the
\* handler received a message equal to m.
C13_SendReturnsHandlerResponseUnlessKeyCollides ==
    SendHandlerReturnedDeclared =>
        /\ Received(protocol, last.sent) = Return(last.message)
        /\ protocol.type_key \notin StorageKeys(last.outcome.val.tp) => last.result = Return(last.outcome.val)
        /\ protocol.type_key \in StorageKeys(last.outcome.val.tp) => last.result.raised

\* The handler for Ping returned Pong(reply='pong') under a protocol in
\* type-key mode, and send returned an equal Pong.
C13_Witness ==
    /\ SendHandlerCalled
    /\ protocol.type_key = "k"
    /\ last.message = Ping(MaxInt)
    /\ last.outcome = Return(Pong(<<"pong">>))
    /\ last.result = Return(Pong(<<"pong">>))

\* C20: send before any raw-send callback is registered raises the
\* 'unimplemented' RuntimeError for every message, registered or not,
\* without encoding the message and without calling a transport or a
\* handler.
C20_SendWithoutCallbackUnimplemented ==
    (last.op = "send" /\ last.via = NoCall) =>
        /\ last.result = Raise("RuntimeError", <<"send() is unimplemented for this type.">>)
        /\ last.encoded = <<>>
        /\ last.sent = <<>>
        /\ last.outcome = NotCalled

\* send of a message type that is not registered, with no callback, ended
\* as unimplemented and not with the encoder's TypeError.
C20_Witness ==
    /\ last.op = "send" /\ last.via = NoCall
    /\ last.message = Stray
    /\ encode_message(protocol, Stray).raised
    /\ last.result.exc = "RuntimeError"

Constructed == last.op = "MessageProtocol" /\ last.ok

\* The types and the ids in a dict argument of the constructor.
ArgTypes(items) == {items[n][2] : n \in DOMAIN items}

ArgIds(items) == {items[n][1] : n \in DOMAIN items}

\* id_to_type and type_to_id are inverses of each other.
MutualInverses(types_by_id, ids_by_type) ==
    /\ \A id \in DOMAIN types_by_id :
          types_by_id[id] \in DOMAIN ids_by_type /\ ids_by_type[types_by_id[id]] = id
    /\ \A tp \in DOMAIN ids_by_type :
          ids_by_type[tp] \in DOMAIN types_by_id /\ types_by_id[ids_by_type[tp]] = tp

\* C14: after a successful construction the id-to-type and type-to-id maps
\* of both registries are mutual inverses, and a construction whose
\* arguments give two ids to one message type or to one response type
\* fails.
C14_RegistryMapsAreInverses ==
    /\ Constructed =>
          /\ MutualInverses(protocol.message_types_by_id, protocol.message_ids_by_type)
          /\ MutualInverses(protocol.response_types_by_id, protocol.response_ids_by_type)
    /\ (/\ last.op = "MessageProtocol"
        /\ \/ Cardinality(ArgTypes(last.message_types)) < Len(last.message_types)
           \/ Cardinality(ArgTypes(last.response_types)) < Len(last.response_types)) => ~last.ok

\* The reserved id of ErrorResponse and of EmptyResponse.
ReservedId(tp) == IF tp = "ErrorResponse" THEN -1 ELSE -2

ReservedTypes == {"ErrorResponse", "EmptyResponse"}

\* The response registry holds no id of the caller (none is negative) for
\* the type.
NoExplicit(tp) ==
    \A id \in DOMAIN protocol.response_types_by_id : id >= 0 => protocol.response_types_by_id[id] # tp

\* The bytes are a document of the layout the protocol reads, with an
\* integer type id.
InLayout(bytes) ==
    /\ bytes.form = "dict"
    /\ IF protocol.type_key = NoneKey
       THEN /\ {"t", "m"} \subseteq DOMAIN bytes.obj
            /\ bytes.obj["t"].k = "int" /\ bytes.obj["m"].k = "dict"
       ELSE /\ protocol.type_key \in DOMAIN bytes.obj
            /\ bytes.obj[protocol.type_key].k = "int"

\* The type id such a document carries.
WireTypeId(bytes) ==
    IF protocol.type_key = NoneKey THEN bytes.obj["t"].i ELSE bytes.obj[protocol.type_key].i

Encoded == last.op \in {"encode_message", "encode_response"}

Decoded == last.op \in {"decode_message", "decode_response"}

C16_AutoRegistrationOnlyFillsGaps ==
    /\ Constructed =>
          /\ \A n \in DOMAIN last.response_types :
                protocol.response_types_by_id[last.response_types[n][1]] = last.response_types[n][2]
          /\ \A n \in DOMAIN last.response_types :
                last.response_types[n][2] \in ReservedTypes =>
                    /\ ReservedId(last.response_types[n][2]) \notin DOMAIN protocol.response_types_by_id
                    /\ protocol.response_ids_by_type[last.response_types[n][2]] = last.response_types[n][1]
    /\ (/\ last.op = "encode_response" /\ last.obj.tp \in ReservedTypes
        /\ ~NoExplicit(last.obj.tp) /\ ~last.result.raised) =>
          \A id \in DOMAIN protocol.response_types_by_id :
              protocol.response_types_by_id[id] = last.obj.tp => WireTypeId(last.result.val) = id
    /\ (/\ last.op = "decode_response" /\ InLayout(last.data)
        /\ \E tp \in ReservedTypes : WireTypeId(last.data) = ReservedId(tp) /\ ~NoExplicit(tp)) =>
          /\ last.result.raised
          /\ last.result.exc = "TypeError"
          /\ last.result.text[1] = "Got unregistered"

\* C17: construction fails when an id in message_types or response_types
\* is negative; in a constructed protocol every message id is >= 0 and
\* the negative response ids are the reserved ones, bound to their own
\* types.
C17_NegativeIdsRefused ==
    /\ (/\ last.op = "MessageProtocol"
        /\ \E id \in ArgIds(last.message_types) \cup ArgIds(last.response_types) : id < 0) => ~last.ok
    /\ protocol # NoProtocol =>
          /\ \A id \in DOMAIN protocol.message_types_by_id : id >= 0
          /\ \A tp \in DOMAIN protocol.message_ids_by_type : protocol.message_ids_by_type[tp] >= 0
          /\ \A id \in DOMAIN protocol.response_types_by_id :
                id < 0 => \E tp \in ReservedTypes : id = ReservedId(tp) /\ protocol.response_types_by_id[id] = tp

\* A construction that gave ErrorResponse the id -1 itself was refused.
C17_Witness ==
    /\ last.op = "MessageProtocol"
    /\ last.message_types = <<>>
    /\ last.response_types = <<<<-1, "ErrorResponse">>>>
    /\ ~last.ok

\* The response types a message type declares are valid under a registry.
DeclaredResponsesRegistered(msgtype, response_ids_by_type) ==
    /\ Len(get_response_types(msgtype)) > 0
    /\ Cardinality(ListToSet(get_response_types(msgtype))) = Len(get_response_types(msgtype))
    /\ ListToSet(get_response_types(msgtype)) \subseteq DOMAIN response_ids_by_type

\* C18: construction succeeds only if every message type in message_types
\* declares a non-empty list of response types without repetition, all of
\* them in the response registry after auto-registration; so in every
\* constructed protocol each registered message type's response types are
\* a non-empty subset of the registered response types.
C18_DeclaredResponseTypesRegistered ==
    /\ Constructed =>
          \A msgtype \in ArgTypes(last.message_types) :
              DeclaredResponsesRegistered(msgtype, protocol.response_ids_by_type)
    /\ protocol # NoProtocol =>
          \A msgtype \in DOMAIN protocol.message_ids_by_type :
              DeclaredResponsesRegistered(msgtype, protocol.response_ids_by_type)

\* Constructions with valid ids were refused: one for a message type that
\* declares no response types, one for Ping without Pong registered (the
\* same message_types was accepted with Pong registered).
C18_Witness ==
    /\ last.op = "MessageProtocol"
    /\ ~last.ok
    /\ \/ last.message_types = <<<<0, "Mute">>>> /\ last.response_types = <<>>
       \/ last.message_types = <<<<0, "Ping">>>> /\ last.response_types = <<<<0, "Relay">>>>

\* C19: construction fails whenever two registered types, messages or
\* responses, have the same __name__.
C19_TypeNamesUniqueAcrossRegistry ==
    (/\ last.op = "MessageProtocol"
     /\ \E tp1, tp2 \in ArgTypes(last.message_types) \cup ArgTypes(last.response_types) :
           tp1 # tp2 /\ TypeName(tp1) = TypeName(tp2)) => ~last.ok

\* The instance just given to the encoder is of a type registered in the
\* registry the encoder uses.
EncodedRegistered ==
    \/ last.op = "encode_message" /\ last.obj.tp \in DOMAIN protocol.message_ids_by_type
    \/ last.op = "encode_response" /\ last.obj.tp \in DOMAIN protocol.response_ids_by_type

\* The bytes just decoded are those the encoder returned for last.obj.
DecodedEncoded == Decoded /\ last.obj # NoneVal

\* C12 as stated: every instance of a registered message or response type
\* is encoded, and decoding the bytes gives an instance equal to it, in
\* envelope mode and in type-key mode.
C12_DecodeOfEncodeIsIdentity ==
    /\ EncodedRegistered => ~last.result.raised
    /\ DecodedEncoded => last.result = Return(last.obj)

\* C12 as amended: an instance of a registered type is encoded unless, in
\* type-key mode, type_key is the storage key of one of its fields; the
\* bytes of a message decode to an equal message, and the bytes of a
\* response decode to an equal response except for EmptyResponse, which
\* decodes to None, and ErrorResponse, for which decode_response raises
\* the clean or the remote error with the response's message.
C12_DecodeOfEncodeIsIdentityButReserved ==
    /\ EncodedRegistered => (last.result.raised <=> protocol.type_key \in StorageKeys(last.obj.tp))
    /\ (DecodedEncoded /\ last.obj.tp \notin ReservedTypes) => last.result = Return(last.obj)
    /\ (DecodedEncoded /\ last.obj.tp = "EmptyResponse") => last.result = Return(NoneVal)
    /\ (DecodedEncoded /\ last.obj.tp = "ErrorResponse") =>
          last.result = Raise(IF /\ protocol.preserve_clean_errors
                                 /\ last.obj.f["error_type"] = EnumVal(ErrorType.CLEAN)
                              THEN "CleanError" ELSE "RemoteError",
                              last.obj.f["error_message"].s)

\* In type-key mode, the bytes of a Ping whose field differs from its
\* default were decoded to an equal Ping.
C12_Witness ==
    /\ last.op = "decode_message"
    /\ protocol.type_key = "k"
    /\ last.obj = Ping(MaxInt)
    /\ last.result = Return(Ping(MaxInt))

\* C21: a sender holds at most one raw-send callback: once one is stored
\* no step changes it, a send_raw_handler call made when one is stored
\* fails, one made when none is stored stores its argument, and send uses
\* the callback that is stored.
C21_SingleRawSendCallback ==
    [][/\ send_raw_message_call # NoCall => send_raw_message_call' = send_raw_message_call
       /\ last'.op = "send_raw_handler" =>
             IF send_raw_message_call # NoCall
             THEN last'.result.raised
             ELSE ~last'.result.raised /\ send_raw_message_call' = last'.call
       /\ last'.op = "send" => last'.via = send_raw_message_call]_vars

\* A second send_raw_handler call was refused and the first callback is
\* still the one stored.
C21_Witness ==
    /\ last.op = "send_raw_handler"
    /\ last.before = "deliver" /\ last.call = "transport"
    /\ last.result.raised
    /\ send_raw_message_call = "deliver"

\* C22: a value other than None that send returns is of a type in the
\* message's get_response_types(); when the callback returns bytes that
\* decode to a response of a registered type outside that list, send
\* raises instead of returning it.
C22_SendReturnsOnlyDeclaredTypes ==
    /\ (last.op = "send" /\ ~last.result.raised /\ last.result.val # NoneVal) =>
          last.result.val.tp \in ListToSet(get_response_types(last.message.tp))
    /\ (/\ last.op = "send" /\ last.sent # <<>> /\ ~last.reply.raised
        /\ ~decode_response(protocol, last.reply.val).raised
        /\ decode_response(protocol, last.reply.val).val # NoneVal
        /\ decode_response(protocol, last.reply.val).val.tp
              \notin ListToSet(get_response_types(last.message.tp))) =>
          last.result = Raise("AssertionError", NoText)

\* The transport answered a Shutdown message with the bytes of a Pong, a
\* registered response type that Shutdown does not declare, and send
\* raised.
C22_Witness ==
    /\ last.op = "send" /\ last.via = "transport"
    /\ last.message = Shutdown
    /\ ~last.reply.raised
    /\ decode_response(protocol, last.reply.val) = Return(Pong(<<"pong">>))
    /\ last.result = Raise("AssertionError", NoText)

\* The registry the decoder just called reads.
TypesByIdUsed ==
    IF last.op = "decode_message" THEN protocol.message_types_by_id ELSE protocol.response_types_by_id

\* 'message' or 'response', as the call that just ended names its objects.
Opname == IF last.op \in {"encode_message", "decode_message"} THEN "message" ELSE "response"

\* C23: encoding an instance of a type that is not in the registry the
\* encoder uses raises a TypeError that names the type, and decoding a
\* document whose type id is not in the registry the decoder uses raises
\* the TypeError for an unregistered type id; no value is returned.
C23_UnregisteredTypesRefused ==
    /\ (Encoded /\ ~EncodedRegistered) =>
          last.result = Raise("TypeError", <<Opname, "type is not registered in protocol:", last.obj.tp>>)
    /\ (Decoded /\ InLayout(last.data) /\ WireTypeId(last.data) \notin DOMAIN TypesByIdUsed) =>
          last.result = Raise("TypeError",
                              <<"Got unregistered", Opname, "type id of", ToString(WireTypeId(last.data))>>)

\* Under a protocol that registers a message type at id 0 only, a
\* document with message id 1 was refused as an unregistered type id.
C23_Witness ==
    /\ last.op = "decode_message"
    /\ DOMAIN protocol.message_types_by_id = {0}
    /\ InLayout(last.data) /\ WireTypeId(last.data) = 1
    /\ last.result.raised /\ last.result.exc = "TypeError"

\* C24: in type-key mode, encoding an instance of a registered type fails
\* when type_key is the storage key of one of its fields, ErrorResponse
\* with its keys 'm' and 't' included; otherwise the document is the
\* instance's stored fields plus the one field type_key holding the id of
\* the type.
C24_TypeKeyCollisionRefused ==
    (Encoded /\ EncodedRegistered /\ protocol.type_key # NoneKey) =>
        IF protocol.type_key \in StorageKeys(last.obj.tp)
        THEN last.result = Raise("RuntimeError",
                                 <<"Type-key", protocol.type_key, "found in msg of type", last.obj.tp>>)
        ELSE /\ ~last.result.raised
             /\ DOMAIN last.result.val.obj = StorageKeys(last.obj.tp) \cup {protocol.type_key}
             /\ \A key \in StorageKeys(last.obj.tp) :
                   Lower(last.result.val.obj[key]) = dataclass_to_dict(last.obj)[key]
             /\ last.result.val.obj[protocol.type_key] =
                   Top(JInt(IF last.op = "encode_message"
                            THEN protocol.message_ids_by_type[last.obj.tp]
                            ELSE protocol.response_ids_by_type[last.obj.tp]))

\* With type_key 't', encode_response of an ErrorResponse was refused.
C24_Witness ==
    /\ last.op = "encode_response"
    /\ protocol.type_key = "t"
    /\ last.obj.tp = "ErrorResponse"
    /\ last.result.raised /\ last.result.exc = "RuntimeError"

\* C26: decode_response never returns an ErrorResponse: for the document
\* of an ErrorResponse it raises CleanError with the response's message
\* when the error type is CLEAN and the protocol's preserve_clean_errors
\* is set, and RemoteError with the response's message otherwise.
C26_ErrorResponseDecodesToRaise ==
    /\ (last.op = "decode_response" /\ ~last.result.raised) => last.result.val.tp # "ErrorResponse"
    /\ (last.op = "decode_response" /\ last.obj.tp = "ErrorResponse") =>
          /\ last.result.raised
          /\ last.result.text = last.obj.f["error_message"].s
          /\ last.result.exc = "CleanError" <=>
                (last.obj.f["error_type"].i = ErrorType.CLEAN /\ protocol.preserve_clean_errors)
          /\ last.result.exc = "RemoteError" <=>
                ~(last.obj.f["error_type"].i = ErrorType.CLEAN /\ protocol.preserve_clean_errors)
    /\ (/\ last.op = "decode_response" /\ protocol.type_key = NoneKey /\ InLayout(last.data)
        /\ WireTypeId(last.data) \in DOMAIN protocol.response_types_by_id
        /\ protocol.response_types_by_id[WireTypeId(last.data)] = "ErrorResponse") =>
          /\ last.result.raised
          /\ ({"m", "t"} \subseteq DOMAIN last.data.obj["m"].d
               /\ last.data.obj["m"].d["t"] = JInt(ErrorType.CLEAN)
               /\ last.data.obj["m"].d["m"].k = "str") =>
                last.result = Raise(IF protocol.preserve_clean_errors THEN "CleanError" ELSE "RemoteError",
                                    last.data.obj["m"].d["m"].s)

\* A protocol with preserve_clean_errors unset decoded the bytes of a
\* CLEAN ErrorResponse by raising RemoteError with its message.
C26_Witness ==
    /\ last.op = "decode_response"
    /\ last.obj.tp = "ErrorResponse"
    /\ last.obj.f["error_type"].i = ErrorType.CLEAN
    /\ ~protocol.preserve_clean_errors
    /\ last.result = Raise("RemoteError", last.obj.f["error_message"].s)

\* C27: the ErrorResponse that handle_raw_message builds for the exception
\* it caught is tagged CLEAN, with the exception's own text, if and only
\* if the exception is a CleanError and preserve_clean_errors is set; for
\* every other failure (another exception of a handler, a decode failure,
\* a missing handler, a failed assertion, a CleanError with
\* preserve_clean_errors unset) it is tagged OTHER.
C27_CleanTagIffCleanErrorPreserved ==
    (Handled /\ last.caught.raised) =>
        /\ last.err_response.tp = "ErrorResponse"
        /\ IF last.caught.exc = "CleanError" /\ protocol.preserve_clean_errors
           THEN last.err_response = ErrorResponse(last.caught.text, ErrorType.CLEAN)
           ELSE last.err_response.f["error_type"] = EnumVal(ErrorType.OTHER)

\* A handler raised CleanError under preserve_clean_errors and the
\* ErrorResponse built is tagged CLEAN with the error's text.
C27_Witness ==
    /\ Handled /\ HandlerRaised
    /\ last.outcome.exc = "CleanError"
    /\ protocol.preserve_clean_errors
    /\ last.err_response = ErrorResponse(last.outcome.text, ErrorType.CLEAN)

\* C30: when the message of a delivered send is decoded by the receiver to
\* a registered type that has no handler, no handler is called, the
\* receiver builds an ErrorResponse tagged OTHER and returns its bytes,
\* and send raises RemoteError.
C30_MissingHandlerIsRemoteError ==
    (/\ SentDelivered /\ last.sent # <<>>
     /\ ~Received(protocol, last.sent).raised
     /\ Received(protocol, last.sent).val.tp \notin DOMAIN handlers) =>
        /\ last.outcome = NotCalled
        /\ handle_raw_message(protocol, handlers, last.sent[1], NotCalled).invoked = <<>>
        /\ handle_raw_message(protocol, handlers, last.sent[1], NotCalled).err_response.f["error_type"]
              = EnumVal(ErrorType.OTHER)
        /\ ~last.reply.raised
        /\ last.result.raised
        /\ last.result.exc = "RemoteError"

\* What _decode does with bytes as a message at the receiver.
ReceiverDecode(data) == Decode(protocol, data, protocol.message_types_by_id, "message")

\* What _decode does with bytes as a response at the sender.
SenderDecode(data) == Decode(protocol, data, protocol.response_types_by_id, "response")

\* _decode failed on the bytes (an ErrorResponse raised by _decode as
\* CleanError or RemoteError is a decoded response, not a failure).
DecodeError(decoded) == decoded.raised /\ decoded.exc \notin {"CleanError", "RemoteError"}

\* C25: when _decode fails on the bytes given to handle_raw_message, no
\* handler is called and handle_raw_message returns the bytes of an
\* ErrorResponse tagged OTHER (bytes that decode_response turns into
\* RemoteError); when _decode fails on the reply the callback returned to
\* send, send raises that error to its caller.
C25_DecodeErrorsAnsweredOrPropagated ==
    /\ (Handled /\ DecodeError(ReceiverDecode(last.msg))) =>
          /\ last.invoked = <<>>
          /\ last.err_response.f["error_type"] = EnumVal(ErrorType.OTHER)
          /\ ~last.result.raised
          /\ decode_response(protocol, last.result.val).raised
          /\ decode_response(protocol, last.result.val).exc = "RemoteError"
    /\ (/\ last.op = "send" /\ last.sent # <<>> /\ ~last.reply.raised
        /\ DecodeError(SenderDecode(last.reply.val))) =>
          last.result = SenderDecode(last.reply.val)

C29_ProtocolNeverMutated ==
    [][protocol' = protocol]_vars

\* handle_raw_message caught an exception and logged it, under a protocol
\* that still logs remote exceptions.
C29_Witness ==
    /\ Handled
    /\ last.caught.raised
    /\ last.logged
    /\ protocol.log_remote_exceptions

\* The response the handler's return value stands for: None is
\* EmptyResponse.
HandlerResponse == IF last.outcome.val = NoneVal THEN EmptyResponse ELSE last.outcome.val

\* The handler was called and returned.
HandlerReturned == Handled /\ last.invoked # <<>> /\ ~last.outcome.raised

\* The handler returned something that is not a Response, an
\* ErrorResponse, or a response of a type the message does not declare.
HandlerReturnedUndeclared ==
    /\ HandlerReturned
    /\ \/ ~issubclass(HandlerResponse.tp, "Response")
       \/ HandlerResponse.tp = "ErrorResponse"
       \/ HandlerResponse.tp \notin ListToSet(get_response_types(last.decoded.tp))

\* The bytes are a document of the protocol's layout carrying the id of
\* ErrorResponse.
IsErrorBytes(bytes) ==
    InLayout(bytes) /\ WireTypeId(bytes) = protocol.response_ids_by_type["ErrorResponse"]

\* C31: bytes that handle_raw_message returns and that are not those of
\* an ErrorResponse carry the id of a response type declared by the type
\* of the decoded message; and when the handler returns something that is
\* not a Response, is an ErrorResponse, or is of a type the message does
\* not declare, handle_raw_message returns the bytes of an ErrorResponse
\* tagged OTHER that the receiver built, without the text of an
\* ErrorResponse the handler made.
C31_OnlyDeclaredResponsesPassThrough ==
    /\ (Handled /\ ~last.result.raised /\ ~IsErrorBytes(last.result.val)) =>
          /\ last.decoded # NoneVal
          /\ InLayout(last.result.val)
          /\ WireTypeId(last.result.val) \in DOMAIN protocol.response_types_by_id
          /\ protocol.response_types_by_id[WireTypeId(last.result.val)]
                \in ListToSet(get_response_types(last.decoded.tp))
    /\ HandlerReturnedUndeclared =>
          /\ last.err_response.f["error_type"] = EnumVal(ErrorType.OTHER)
          /\ ~last.result.raised
          /\ IsErrorBytes(last.result.val)
          /\ ~ContainsText(WireErrorText(last.result.val), <<"made by handler">>)
          /\ decode_response(protocol, last.result.val).raised
          /\ decode_response(protocol, last.result.val).exc = "RemoteError"

\* C32: every key of the handler map is a Message type registered in the
\* protocol, the handler stored under it is one registered for that type,
\* and the response types it declares (None standing for EmptyResponse)
\* are the set of the type's get_response_types(); a register_handler
\* call that raises leaves the handler map as it was.
C32_HandlerMapWellFormed ==
    /\ \A msgtype \in DOMAIN handlers :
          /\ issubclass(msgtype, "Message")
          /\ msgtype \in DOMAIN protocol.message_ids_by_type
          /\ handlers[msgtype].msg = msgtype
          /\ DeclaredResponseTypes(handlers[msgtype]) = ListToSet(get_response_types(msgtype))
    /\ (Registered /\ last.result.raised) => handlers = last.before

\* A register_handler call for a registered type raised while another
\* handler was already stored.
C32_Witness ==
    /\ Registered
    /\ last.result.raised
    /\ last.call.msg \in DOMAIN protocol.message_ids_by_type
    /\ last.call.msg \notin DOMAIN handlers
    /\ handlers # EmptyDict

\* C33: a handle_raw_message call invokes at most one handler, once; it
\* invokes one only when decode_message returned a Message, and then the
\* handler stored for the type of that message; when decode_message
\* raises no handler is invoked.
C33_HandlerInvokedOnceForDecodedType ==
    Handled =>
        /\ Len(last.invoked) <= 1
        /\ last.invoked # <<>> =>
              /\ ~decode_message(protocol, last.msg).raised
              /\ last.decoded = decode_message(protocol, last.msg).val
              /\ issubclass(last.decoded.tp, "Message")
              /\ last.decoded.tp \in DOMAIN handlers
              /\ last.invoked = <<handlers[last.decoded.tp]>>
              /\ last.invoked[1].msg = last.decoded.tp
        /\ decode_message(protocol, last.msg).raised =>
              /\ last.invoked = <<>>
              /\ last.outcome = NotCalled
        /\ last.invoked = <<>> <=> last.outcome = NotCalled

\* A message was decoded and given to its handler while a handler of
\* another type was registered too.
C33_Witness ==
    /\ Handled
    /\ Len(last.invoked) = 1
    /\ last.decoded.tp = "Shutdown"
    /\ "Ping" \in DOMAIN handlers

Sent == last.op = "send"

\* C34: a send call with a callback registered whose message encodes
\* calls the callback once, with the bytes encode_message gave for the
\* message; a send call without callback, or whose message does not
\* encode (type not registered, type key among the payload's keys), does
\* not call it and raises; and the response is decoded only from what the
\* callback returned: when the callback raises, send raises the same, and
\* a value send returns is the decoded reply of the callback.
C34_CallbackCalledOnceWithEncodedMessage ==
    Sent =>
        /\ (last.via # NoCall /\ ~encode_message(protocol, last.message).raised) =>
              last.sent = <<encode_message(protocol, last.message).val>>
        /\ (last.via = NoCall \/ encode_message(protocol, last.message).raised) =>
              /\ last.sent = <<>>
              /\ last.result.raised
        /\ (last.sent # <<>> /\ last.reply.raised) => last.result = last.reply
        /\ ~last.result.raised =>
              /\ last.sent # <<>>
              /\ ~last.reply.raised
              /\ last.result = decode_response(protocol, last.reply.val)

\* A send handed the encoded message to the callback and returned the
\* decoded reply.
C34_Witness ==
    /\ Sent
    /\ last.sent = <<encode_message(protocol, last.message).val>>
    /\ ~last.result.raised
    /\ last.result.val # NoneVal

\* The protocol with log_remote_exceptions set the other way.
OtherLogging(protocol_) ==
    [protocol_ EXCEPT !.log_remote_exceptions = ~protocol_.log_remote_exceptions]

\* C35: under the protocol that differs only in log_remote_exceptions,
\* handle_raw_message with the same handlers, the same bytes and the same
\* behaviour of the handler has the same outcome (the same bytes when it
\* returns), calls the same handler and builds the same ErrorResponse;
\* the exception is logged exactly when one was caught and the flag is
\* set, so nothing is logged when handling succeeds.
C35_LoggingFlagOnlyAffectsLogging ==
    Handled =>
        /\ handle_raw_message(OtherLogging(protocol), handlers, last.msg, last.outcome).result = last.result
        /\ handle_raw_message(OtherLogging(protocol), handlers, last.msg, last.outcome).invoked = last.invoked
        /\ handle_raw_message(OtherLogging(protocol), handlers, last.msg, last.outcome).err_response
              = last.err_response
        /\ last.logged <=> (last.caught.raised /\ protocol.log_remote_exceptions)
        /\ ~last.caught.raised => ~last.logged

\* A handler's exception was logged and answered, for a trusted sender, with
\* bytes that describe it.
C35_Witness ==
    /\ Handled /\ HandlerRaised
    /\ last.logged
    /\ protocol.trusted_sender
    /\ ~last.result.raised
    /\ ContainsText(WireErrorText(last.result.val), <<last.outcome.exc>>)

\* The ids bound to a response type and to no message type.
ResponseOnlyIds == DOMAIN protocol.response_types_by_id \ DOMAIN protocol.message_types_by_id

\* The ids bound to a message type and to a response type.
SharedIds == DOMAIN protocol.response_types_by_id \cap DOMAIN protocol.message_types_by_id

\* The bytes are a document with a type id where the protocol's layout
\* has it (a bool is an int to isinstance).
CarriesId(bytes) ==
    /\ bytes.form = "dict"
    /\ IF protocol.type_key = NoneKey
       THEN "t" \in DOMAIN bytes.obj /\ IsInt(bytes.obj["t"])
       ELSE protocol.type_key \in DOMAIN bytes.obj /\ IsInt(bytes.obj[protocol.type_key])

\* C36: a message handle_raw_message decodes has the type bound to the
\* document's id in the message registry, and a response send returns has
\* the type bound to the reply's id in the response registry, also for an
\* id bound in both; bytes given to handle_raw_message that carry an id
\* bound only to a response type (the ids of ErrorResponse and
\* EmptyResponse included) reach no handler and are answered with the
\* bytes of an ErrorResponse tagged OTHER.
C36_IdSpacesIndependent ==
    /\ (Handled /\ last.decoded # NoneVal) =>
          /\ CarriesId(last.msg)
          /\ WireTypeId(last.msg) \in DOMAIN protocol.message_types_by_id
          /\ last.decoded.tp = protocol.message_types_by_id[WireTypeId(last.msg)]
    /\ (Sent /\ ~last.result.raised /\ last.result.val # NoneVal) =>
          /\ CarriesId(last.reply.val)
          /\ WireTypeId(last.reply.val) \in DOMAIN protocol.response_types_by_id
          /\ last.result.val.tp = protocol.response_types_by_id[WireTypeId(last.reply.val)]
    /\ (Handled /\ CarriesId(last.msg) /\ WireTypeId(last.msg) \in ResponseOnlyIds) =>
          /\ last.invoked = <<>>
          /\ last.decoded = NoneVal
          /\ last.err_response.f["error_type"] = EnumVal(ErrorType.OTHER)
          /\ ~last.result.raised
          /\ IsErrorBytes(last.result.val)
          /\ decode_response(protocol, last.result.val).exc = "RemoteError"

\* EmptyResponse is not among the response types the type declares.
NoEmptyDeclared(tp) == "EmptyResponse" \notin ListToSet(get_response_types(tp))

\* C37: for a message type that does not declare EmptyResponse, when the
\* handler returns None handle_raw_message returns the bytes of an
\* ErrorResponse tagged OTHER and not those of an EmptyResponse; and when
\* the callback of send returns the bytes of an EmptyResponse, send
\* returns None.
C37_EmptyReplyAsymmetry ==
    /\ (HandlerReturned /\ last.outcome.val = NoneVal /\ NoEmptyDeclared(last.decoded.tp)) =>
          /\ last.err_response.f["error_type"] = EnumVal(ErrorType.OTHER)
          /\ ~last.result.raised
          /\ last.result # encode_response(protocol, EmptyResponse)
          /\ IsErrorBytes(last.result.val)
          /\ decode_response(protocol, last.result.val).exc = "RemoteError"
    /\ (/\ Sent /\ last.sent # <<>> /\ NoEmptyDeclared(last.message.tp)
        /\ last.reply = encode_response(protocol, EmptyResponse)) =>
          last.result = Return(NoneVal)

\* Thread t has a finished call of `op`.
Done(t, op) == calls[t] # Idle /\ calls[t].op = op /\ calls[t].pc = "done"

==========================================================================
